---- MODULE Spec2Model ----
(***************************************************************************)
(* Job registry and background workers of the Podfree editor server        *)
(* (src/app/server.py): JobManager, run_ffmpeg_proxy, run_script_job,      *)
(* export_video_ffmpeg / export_audio_ffmpeg.                              *)
(*                                                                         *)
(* Three specifications share the registry operators:                      *)
(*   SpecRegistry  JobManager's four methods, each one atomic step,        *)
(*                 called with arbitrary arguments;                        *)
(*   SpecLock      the same methods statement by statement, threads        *)
(*                 interleaving wherever the interpreter may switch;       *)
(*   Spec          the request handlers that create jobs and the worker    *)
(*                 threads that drive them.                                *)
(***************************************************************************)
EXTENDS Integers, Sequences, FiniteSets, TLC

(* ------------------------------------------------------------------ *)
(* Bounds of the model                                                 *)
(* ------------------------------------------------------------------ *)
MaxJobs == 2          \* records the registry may hold
MaxLogs == 2          \* lines a job's log may hold
MaxClock == 1         \* largest value time.time() returns
MaxCalls == 3         \* registry calls made in one run of SpecRegistry
MaxWorkers == 1       \* jobs started in one run of Spec
MaxSegs == 2          \* segments of one export
MaxThreads == 2       \* threads calling the registry in one run of SpecLock
MaxPath == 4          \* components of a caller-supplied path
MaxWords == 3         \* words of a transcript
MaxExports == 1       \* export calls made in one run of SpecExport
MaxRacers == 2        \* export requests for one file in one run of SpecRace

(* ------------------------------------------------------------------ *)
(* Values                                                              *)
(* ------------------------------------------------------------------ *)
PENDING == "pending"
RUNNING == "running"
COMPLETED == "completed"
FAILED == "failed"
JobStatus == {PENDING, RUNNING, COMPLETED, FAILED}
Terminal == {COMPLETED, FAILED}

JobTypes == {"proxy", "script", "export"}

\* uuid4().hex values; one more than the registry may hold, so that an id
\* the registry never stored always exists.
JobIds == 1..(MaxJobs + 1)

\* An optional keyword argument: <<>> is None, <<v>> is the value v.
None == <<>>
Some(v) == <<v>>
Opt(S) == {None} \cup {Some(v) : v \in S}
Val(o) == o[1]

ProgressArgs == {-10, 50, 150}
MessageArgs == {"m"}
LogLines == {"a", "b"}

Min2(a, b) == IF a <= b THEN a ELSE b
Max2(a, b) == IF a >= b THEN a ELSE b

VARIABLES
    jobs,       \* JobManager._jobs: job id -> record; the logs field is a list reference
    lists,      \* the list objects: reference -> sequence of lines
    issued,     \* the ids uuid4 has returned
    clock,      \* the last value time.time() returned
    lastCall,   \* the registry method called last and the job id passed or returned
    ncalls,     \* the number of registry calls made so far
    snap,       \* the snapshots a reader holds: job id -> record returned by get/list
    seen,       \* the log lines each held snapshot showed when it was returned
    thr,        \* the worker threads: job id -> the thread's position and locals
    files,      \* the export output files that exist
    tmpdirs,    \* the temporary directories that exist
    lock,       \* JobManager._lock: TRUE while some thread holds it
    cs,         \* the threads of SpecLock: thread -> the call it is in and where it stands
    WORKSPACE_DIR, \* the workspace root, a canonical absolute path (sequence of components)
    links,      \* the symbolic links of the file system: canonical path -> canonical target
    asked,      \* the path last given to the sandbox: function, absolute?, components
    answer,     \* what the sandbox returned for it: None for ValueError, else the path
    words,      \* the edited words last given to build_segments
    segments,   \* None before build_segments is called, else the list it returned
    req,        \* the export request being handled: where its handler stands, its locals
    auto        \* auto_process_video of one upload: where it stands, its locals, the audio file

regvars == <<jobs, lists, issued, clock>>
apivars == <<lastCall, ncalls, snap, seen>>
wrkvars == <<thr, files, tmpdirs>>
lckvars == <<lock, cs>>
sbxvars == <<WORKSPACE_DIR, links, asked, answer>>
segvars == <<words, segments>>
reqvars == <<req, auto>>
fnvars == <<sbxvars, segvars, reqvars>>
vars == <<jobs, lists, issued, clock, lastCall, ncalls, snap, seen, thr, files, tmpdirs,
          lock, cs, WORKSPACE_DIR, links, asked, answer, words, segments, req,
          auto>>

(* ------------------------------------------------------------------ *)
(* JobManager                                                          *)
(* ------------------------------------------------------------------ *)

\* uuid.uuid4().hex: a value never returned before. The ids are opaque
\* tokens, so the model takes them in one fixed order.
uuid4(used) == IF JobIds \ used = {} THEN {}
               ELSE {CHOOSE i \in JobIds \ used : \A k \in JobIds \ used : i <= k}

\* time.time(): the previous reading or a later one.
time(prev) == {t \in {prev, prev + 1} : t <= MaxClock}

\* The record create_job stores; its logs field refers to a new empty list,
\* named by the job id.
NewJob(job_id, job_type, label, t1, t2) ==
    [id |-> job_id, type |-> job_type, label |-> label, status |-> PENDING,
     progress |-> 0, message |-> "queued", logs |-> job_id,
     created_at |-> t1, updated_at |-> t2]

\* Mutant: the new record replaces the store instead of joining it.
create_job_replaces(J, job_id, job_type, label, t1, t2) ==
    (job_id :> NewJob(job_id, job_type, label, t1, t2))

create_job(J, job_id, job_type, label, t1, t2) ==
    (job_id :> NewJob(job_id, job_type, label, t1, t2)) @@ J

\* Mutant: the lower clamp is missing.
ClampProgress_no_floor(progress) == Min2(100, progress)

\* max(0.0, min(100.0, progress))
ClampProgress(progress) == Max2(0, Min2(100, progress))

SetStatus(job, status) ==
    IF status # None THEN [job EXCEPT !.status = Val(status)] ELSE job

SetProgress(job, progress) ==
    IF progress # None THEN [job EXCEPT !.progress = ClampProgress(Val(progress))] ELSE job

\* Mutant: an omitted message clears the stored one.
SetMessage_clears(job, message) ==
    [job EXCEPT !.message = IF message # None THEN Val(message) ELSE ""]

SetMessage(job, message) ==
    IF message # None THEN [job EXCEPT !.message = Val(message)] ELSE job

\* Mutant: the line replaces the log instead of being appended.
AppendLog_replaces(list, log_line) ==
    IF log_line # None THEN <<Val(log_line)>> ELSE list

\* job.setdefault("logs", []).append(log_line): the key is always present,
\* so the line goes to the list the record already refers to.
AppendLog(list, log_line) ==
    IF log_line # None THEN Append(list, Val(log_line)) ELSE list

Touch(job, t) == [job EXCEPT !.updated_at = t]

\* self._jobs.get(job_id); if not job: return
Known(J, job_id) == job_id \in DOMAIN J

\* Mutant: an id that is not stored gets a record (self._jobs.setdefault).
update_job_upserts(J, job_id, status, progress, message, t) ==
    LET K == IF Known(J, job_id) THEN J
             ELSE (job_id :> NewJob(job_id, "script", "label", t, t)) @@ J
    IN  [K EXCEPT ![job_id] =
            Touch(SetMessage(SetProgress(SetStatus(@, status), progress), message), t)]

\* update_job's effect on the records.
update_job(J, job_id, status, progress, message, t) ==
    IF ~Known(J, job_id) THEN J
    ELSE [J EXCEPT ![job_id] =
            Touch(SetMessage(SetProgress(SetStatus(@, status), progress), message), t)]

\* update_job's effect on the list objects.
update_logs(J, L, job_id, log_line) ==
    IF ~Known(J, job_id) THEN L
    ELSE [L EXCEPT ![J[job_id].logs] = AppendLog(@, log_line)]

\* dict(job): a new dict with the same values; the logs value is the
\* reference to the registry's own list.
CopyDict(job) == job

\* What a holder of record r reads as its log lines.
LogsOf(L, r) == L[r.logs]

Empty == <<>>
NoFunc == [x \in {} |-> x]

(* ------------------------------------------------------------------ *)
(* SpecRegistry: the four methods as atomic calls                      *)
(* ------------------------------------------------------------------ *)

\* A call record: the method, the job id passed (or returned by create) and
\* the keyword arguments of an update.
Call(op, id, a) ==
    [op |-> op, id |-> id, status |-> a.status, progress |-> a.progress,
     message |-> a.message, log_line |-> a.log_line]

Args(status, progress, message, log_line) ==
    [status |-> status, progress |-> progress, message |-> message, log_line |-> log_line]

NoArgs == Args(None, None, None, None)

\* A path string as pathlib reads it: absolute or not, and its components.
PathOf(abs, parts) == [abs |-> abs, parts |-> parts]

\* A workspace with no symbolic link, before the sandbox is asked anything,
\* and no transcript given to build_segments yet.
NoSandbox ==
    /\ WORKSPACE_DIR = <<"p", "ws">>
    /\ links = NoFunc
    /\ asked = [fn |-> "none", path |-> PathOf(FALSE, Empty)]
    /\ answer = None
NoWords == words = Empty /\ segments = None

\* No export request is being handled.
NoReq ==
    [pc |-> "idle", kind |-> "", video_file |-> PathOf(FALSE, Empty),
     edited_words |-> Empty, candidate |-> None, root |-> None, source |-> None,
     found |-> FALSE, segs |-> None, output |-> None, job |-> 0, reply |-> 0]

\* No upload is being processed. summary: what summarize_directory found
\* when auto_process_video began; audio_file: whether the project directory
\* holds an audio file now; extract, transcribe: the ids of the jobs
\* created (0 for none); delayed: the delayed_transcription thread ("none",
\* "sleep" while it sleeps, "done"); rechecked: what its re-check found.
NoAuto ==
    [pc |-> "idle", summary |-> [proxy |-> FALSE, audio |-> FALSE, transcript_json |-> FALSE],
     audio_file |-> FALSE, extract |-> 0, transcribe |-> 0, delayed |-> "none",
     rechecked |-> None]
NoRequest == req = NoReq /\ auto = NoAuto

\* The threads of SpecLock, and a thread that is in no registry call.
Threads == 1..MaxThreads
Idle == [pc |-> "idle", op |-> "none", id |-> 0, a |-> NoArgs, ret |-> NoFunc]

\* The keyword arguments update_job is called with: each field alone with
\* every value, and the combinations the call sites of the program use
\* (status and message; status, progress and message; progress and message),
\* with every value.
UpdateArgs ==
    {Args(s, None, None, None) : s \in Opt(JobStatus)}
    \cup {Args(None, Some(p), None, None) : p \in ProgressArgs}
    \cup {Args(None, None, Some(m), None) : m \in MessageArgs}
    \cup {Args(None, None, None, Some(l)) : l \in LogLines}
    \cup {Args(Some(s), None, Some(m), None) : s \in JobStatus, m \in MessageArgs}
    \cup {Args(Some(s), Some(p), Some(m), None) : s \in JobStatus, p \in ProgressArgs, m \in MessageArgs}
    \cup {Args(None, Some(p), Some(m), None) : p \in ProgressArgs, m \in MessageArgs}
    \cup {Args(Some(s), Some(p), Some(m), Some(l)) : s \in {COMPLETED}, p \in ProgressArgs, m \in MessageArgs, l \in LogLines}

InitRegistry ==
    /\ jobs = NoFunc
    /\ lists = NoFunc
    /\ issued = {}
    /\ clock = 0
    /\ lastCall = Call("init", 0, NoArgs)
    /\ ncalls = 0
    /\ snap = NoFunc
    /\ seen = NoFunc
    /\ thr = NoFunc
    /\ files = {}
    /\ tmpdirs = {}
    /\ lock = FALSE
    /\ cs = [t \in Threads |-> Idle]
    /\ NoSandbox
    /\ NoWords
    /\ NoRequest

\* One more call is made.
Counted == ncalls < MaxCalls /\ ncalls' = ncalls + 1

\* job_manager.create_job(job_type, label)
CreateWith(job_type, job_id, t1, t2) ==
    /\ Cardinality(DOMAIN jobs) < MaxJobs
    /\ jobs' = create_job(jobs, job_id, job_type, "label", t1, t2)
    /\ lists' = (job_id :> Empty) @@ lists
    /\ issued' = issued \cup {job_id}
    /\ clock' = t2
    /\ lastCall' = Call("create", job_id, NoArgs)

RCreate ==
    /\ Counted
    /\ \E job_type \in JobTypes, job_id \in uuid4(issued) :
         \E t1 \in time(clock) : \E t2 \in time(t1) :
            CreateWith(job_type, job_id, t1, t2)
    /\ UNCHANGED <<snap, seen, wrkvars, lckvars, fnvars>>

\* job_manager.update_job(job_id, status=, progress=, message=, log_line=)
UpdateWith(job_id, a, t) ==
    /\ (Known(jobs, job_id) /\ a.log_line # None) => Len(LogsOf(lists, jobs[job_id])) < MaxLogs
    /\ jobs' = update_job(jobs, job_id, a.status, a.progress, a.message, t)
    /\ lists' = update_logs(jobs, lists, job_id, a.log_line)
    /\ clock' = IF Known(jobs, job_id) THEN t ELSE clock
    /\ lastCall' = Call("update", job_id, a)
    /\ UNCHANGED issued

RUpdate ==
    /\ Counted
    /\ \E job_id \in JobIds, a \in UpdateArgs :
         \E t \in time(clock) : UpdateWith(job_id, a, t)
    /\ UNCHANGED <<snap, seen, wrkvars, lckvars, fnvars>>

\* job_manager.get_job(job_id)
RGet ==
    /\ Counted
    /\ \E job_id \in JobIds :
        /\ snap' = IF Known(jobs, job_id) THEN (job_id :> CopyDict(jobs[job_id])) ELSE NoFunc
        /\ seen' = IF Known(jobs, job_id) THEN (job_id :> LogsOf(lists, jobs[job_id])) ELSE NoFunc
        /\ lastCall' = Call("get", job_id, NoArgs)
    /\ UNCHANGED <<regvars, wrkvars, lckvars, fnvars>>

\* job_manager.list_jobs()
RList ==
    /\ Counted
    /\ snap' = [job_id \in DOMAIN jobs |-> CopyDict(jobs[job_id])]
    /\ seen' = [job_id \in DOMAIN jobs |-> LogsOf(lists, jobs[job_id])]
    /\ lastCall' = Call("list", 0, NoArgs)
    /\ UNCHANGED <<regvars, wrkvars, lckvars, fnvars>>

NextRegistry == RCreate \/ RUpdate \/ RGet \/ RList

SpecRegistry == InitRegistry /\ [][NextRegistry]_vars

(* ------------------------------------------------------------------ *)
(* Claims about JobManager, checked under SpecRegistry                 *)
(* ------------------------------------------------------------------ *)

IsPrefix(s, t) == Len(s) <= Len(t) /\ SubSeq(t, 1, Len(s)) = s

\* The step is an update_job call on a stored job / on an id not stored.
UpdatedKnown == lastCall'.op = "update" /\ Known(jobs, lastCall'.id)
UpdatedUnknown == lastCall'.op = "update" /\ ~Known(jobs, lastCall'.id)

ProgressInRange == \A j \in DOMAIN jobs : jobs[j].progress >= 0 /\ jobs[j].progress <= 100

UpdateClamps ==
    (UpdatedKnown /\ lastCall'.progress # None) =>
        jobs'[lastCall'.id].progress =
            IF Val(lastCall'.progress) > 100 THEN 100
            ELSE IF Val(lastCall'.progress) < 0 THEN 0
            ELSE Val(lastCall'.progress)

\* C4: in every reachable state every stored job's progress lies in
\* [0, 100]; an update with progress above 100 stores 100, one with
\* progress below 0 stores 0, and a value inside the range is stored as is.
C4_ProgressClamped == []ProgressInRange /\ [][UpdateClamps]_vars

\* C4 witness: update_job was just called with progress 150 on a stored job.
C4_Witness ==
    /\ lastCall.op = "update"
    /\ Known(jobs, lastCall.id)
    /\ lastCall.progress = Some(150)

UnknownIdNoOp ==
    UpdatedUnknown =>
        /\ DOMAIN jobs' = DOMAIN jobs
        /\ jobs' = jobs
        /\ lists' = lists

\* C5: an update call with a job id that is not in the registry changes no
\* stored record and adds none: the id set and every record are the same
\* before and after the call.
C5_UnknownIdNoOp == [][UnknownIdNoOp]_vars

\* C5 witness: update_job was just called, with a status and a message, on
\* an id the registry does not hold, while it holds a record.
C5_Witness ==
    /\ lastCall.op = "update"
    /\ ~Known(jobs, lastCall.id)
    /\ lastCall.status # None
    /\ lastCall.message # None
    /\ DOMAIN jobs # {}

UpdateFrame ==
    UpdatedKnown =>
        LET a == lastCall'
            old == jobs[a.id]
            new == jobs'[a.id]
        IN  /\ DOMAIN jobs' = DOMAIN jobs
            /\ \A k \in DOMAIN jobs \ {a.id} :
                   jobs'[k] = jobs[k] /\ LogsOf(lists', jobs'[k]) = LogsOf(lists, jobs[k])
            /\ new.id = old.id
            /\ new.type = old.type
            /\ new.label = old.label
            /\ new.created_at = old.created_at
            /\ new.logs = old.logs
            /\ new.status = (IF a.status = None THEN old.status ELSE Val(a.status))
            /\ (a.progress = None => new.progress = old.progress)
            /\ new.message = (IF a.message = None THEN old.message ELSE Val(a.message))
            /\ (a.log_line = None => LogsOf(lists', new) = LogsOf(lists, old))

\* C6: an update call on job J changes only the supplied fields of J
\* (status, progress, message, one appended log line) and J's updated_at;
\* J's id, type, label and created_at and every omitted field keep their
\* values, and the record of every other job is unchanged.
C6_UpdateFrame == [][UpdateFrame]_vars

\* C6 witness: an update that supplied only a progress has acted on one of
\* two stored jobs, whose status and message are still those it was created
\* with.
C6_Witness ==
    /\ lastCall.op = "update"
    /\ Known(jobs, lastCall.id)
    /\ Cardinality(DOMAIN jobs) = 2
    /\ lastCall.progress = Some(50)
    /\ lastCall.status = None /\ lastCall.message = None /\ lastCall.log_line = None
    /\ jobs[lastCall.id].progress = 50
    /\ jobs[lastCall.id].status = PENDING
    /\ jobs[lastCall.id].message = "queued"

LogsGrow ==
    \A j \in DOMAIN jobs :
        /\ j \in DOMAIN jobs'
        /\ IsPrefix(LogsOf(lists, jobs[j]), LogsOf(lists', jobs'[j]))

UpdateAppendsOne ==
    (UpdatedKnown /\ lastCall'.log_line # None) =>
        LogsOf(lists', jobs'[lastCall'.id]) =
            Append(LogsOf(lists, jobs[lastCall'.id]), Val(lastCall'.log_line))

\* C7: a job's logs are append-only: across every step the old log is a
\* prefix of the new one, and an update with a log_line extends the log by
\* exactly that line at the end.
C7_LogsAppendOnly == [][LogsGrow /\ UpdateAppendsOne]_vars

\* C7 witness: an update has appended the line "b" to a log that held "a".
C7_Witness ==
    /\ lastCall.op = "update"
    /\ Known(jobs, lastCall.id)
    /\ lastCall.log_line = Some("b")
    /\ LogsOf(lists, jobs[lastCall.id]) = <<"a", "b">>

\* C8: a snapshot returned by get or list is independent of the registry:
\* no later update of the job changes what the holder of the snapshot
\* reads in it, its log lines included.
C8_SnapshotIndependent ==
    \A j \in DOMAIN snap : LogsOf(lists, snap[j]) = seen[j]

CreateAddsOne ==
    lastCall'.op = "create" =>
        LET job_id == lastCall'.id
        IN  /\ job_id \notin DOMAIN jobs
            /\ DOMAIN jobs' = DOMAIN jobs \cup {job_id}
            /\ jobs'[job_id].id = job_id
            /\ jobs'[job_id].status = PENDING
            /\ jobs'[job_id].progress = 0
            /\ jobs'[job_id].message = "queued"
            /\ LogsOf(lists', jobs'[job_id]) = Empty
            /\ \A k \in DOMAIN jobs :
                   jobs'[k] = jobs[k] /\ LogsOf(lists', jobs'[k]) = LogsOf(lists, jobs[k])

\* C10: every create call adds exactly one record, under an id no stored
\* record has, with status pending, progress 0, message "queued" and an
\* empty log; it returns that id and leaves every stored record unchanged.
C10_CreateAddsOne == [][CreateAddsOne]_vars

\* C10 witness: a create call has added a second record beside one that an
\* update had already changed.
C10_Witness ==
    /\ lastCall.op = "create"
    /\ Cardinality(DOMAIN jobs) = 2
    /\ \E k \in DOMAIN jobs : k # lastCall.id /\ jobs[k].status # PENDING

(* ------------------------------------------------------------------ *)
(* SpecLock: the four methods statement by statement, under the lock   *)
(* ------------------------------------------------------------------ *)

\* The keyword arguments SpecLock's threads pass to update_job: a terminal
\* update as the workers make it, a status with a message, a log line, and
\* a status together with a log line.
LockArgs ==
    {Args(Some(COMPLETED), Some(150), Some("m"), None),
     Args(Some(RUNNING), None, Some("m"), None),
     Args(None, None, None, Some("a")),
     Args(Some(FAILED), None, None, Some("b"))}

\* Mutant: the lock lets every thread in.
CanAcquire_always(held) == TRUE

\* threading.Lock: a thread enters "with self._lock" only while no thread
\* holds the lock.
CanAcquire(held) == ~held

\* The first statement inside each method's "with self._lock" block.
Body(op) ==
    CASE op = "create" -> "store"
      [] op = "update" -> "get"
      [] op = "get" -> "copy"
      [] op = "list" -> "copyall"

\* Thread t's position moves to pc.
Step(t, pc) == cs[t].pc = pc
Move(t, pc) == cs' = [cs EXCEPT ![t].pc = pc]
Untouched == UNCHANGED <<lastCall, snap, seen, wrkvars, fnvars>>

\* An idle thread enters a method: the call is counted and its arguments
\* are bound.
Enter(t, op, id, a) ==
    /\ Step(t, "idle")
    /\ Counted
    /\ cs' = [cs EXCEPT ![t] = [pc |-> "lock", op |-> op, id |-> id, a |-> a, ret |-> NoFunc]]

\* create_job: uuid4 is drawn before the lock is taken.
CallCreate(t) ==
    /\ Cardinality(issued) < MaxJobs
    /\ \E job_id \in uuid4(issued) :
          /\ Enter(t, "create", job_id, NoArgs)
          /\ issued' = issued \cup {job_id}
    /\ UNCHANGED <<jobs, lists, clock, lock>>
    /\ Untouched

CallUpdate(t) ==
    /\ \E job_id \in JobIds, a \in LockArgs : Enter(t, "update", job_id, a)
    /\ UNCHANGED <<regvars, lock>>
    /\ Untouched

CallGet(t) ==
    /\ \E job_id \in JobIds : Enter(t, "get", job_id, NoArgs)
    /\ UNCHANGED <<regvars, lock>>
    /\ Untouched

CallList(t) ==
    /\ Enter(t, "list", 0, NoArgs)
    /\ UNCHANGED <<regvars, lock>>
    /\ Untouched

\* with self._lock: (entry)
LockAcquire(t) ==
    /\ Step(t, "lock")
    /\ CanAcquire(lock)
    /\ lock' = TRUE
    /\ Move(t, Body(cs[t].op))
    /\ UNCHANGED <<regvars, ncalls>>
    /\ Untouched

\* with self._lock: (exit), and the method returns.
LockRelease(t) ==
    /\ Step(t, "unlock")
    /\ lock' = FALSE
    /\ cs' = [cs EXCEPT ![t] = Idle]
    /\ UNCHANGED <<regvars, ncalls>>
    /\ Untouched

\* self._jobs[job_id] = {...}
CreateStore(t) ==
    /\ Step(t, "store")
    /\ \E t1 \in time(clock) : \E t2 \in time(t1) :
          /\ jobs' = create_job(jobs, cs[t].id, "script", "label", t1, t2)
          /\ clock' = t2
    /\ lists' = (cs[t].id :> Empty) @@ lists
    /\ Move(t, "unlock")
    /\ UNCHANGED <<issued, lock, ncalls>>
    /\ Untouched

\* job = self._jobs.get(job_id); if not job: return
UpdateGet(t) ==
    /\ Step(t, "get")
    /\ Move(t, IF Known(jobs, cs[t].id) THEN "status" ELSE "unlock")
    /\ UNCHANGED <<regvars, lock, ncalls>>
    /\ Untouched

\* if status is not None: job["status"] = status
UpdateStatus(t) ==
    /\ Step(t, "status")
    /\ jobs' = [jobs EXCEPT ![cs[t].id] = SetStatus(@, cs[t].a.status)]
    /\ Move(t, "progress")
    /\ UNCHANGED <<lists, issued, clock, lock, ncalls>>
    /\ Untouched

\* if progress is not None: job["progress"] = max(0.0, min(100.0, progress))
UpdateProgress(t) ==
    /\ Step(t, "progress")
    /\ jobs' = [jobs EXCEPT ![cs[t].id] = SetProgress(@, cs[t].a.progress)]
    /\ Move(t, "message")
    /\ UNCHANGED <<lists, issued, clock, lock, ncalls>>
    /\ Untouched

\* if message is not None: job["message"] = message
UpdateMessage(t) ==
    /\ Step(t, "message")
    /\ jobs' = [jobs EXCEPT ![cs[t].id] = SetMessage(@, cs[t].a.message)]
    /\ Move(t, "log")
    /\ UNCHANGED <<lists, issued, clock, lock, ncalls>>
    /\ Untouched

\* if log_line is not None: job.setdefault("logs", []).append(log_line)
UpdateLog(t) ==
    /\ Step(t, "log")
    /\ lists' = [lists EXCEPT ![jobs[cs[t].id].logs] = AppendLog(@, cs[t].a.log_line)]
    /\ Move(t, "touch")
    /\ UNCHANGED <<jobs, issued, clock, lock, ncalls>>
    /\ Untouched

\* job["updated_at"] = time.time()
UpdateTouch(t) ==
    /\ Step(t, "touch")
    /\ \E now \in time(clock) :
          /\ jobs' = [jobs EXCEPT ![cs[t].id] = Touch(@, now)]
          /\ clock' = now
    /\ Move(t, "unlock")
    /\ UNCHANGED <<lists, issued, lock, ncalls>>
    /\ Untouched

\* job = self._jobs.get(job_id); return dict(job) if job else None
\* (the value returned is kept by job id; None is the empty one)
GetCopy(t) ==
    /\ Step(t, "copy")
    /\ cs' = [cs EXCEPT ![t].pc = "unlock",
                        ![t].ret = IF Known(jobs, cs[t].id)
                                   THEN (cs[t].id :> CopyDict(jobs[cs[t].id]))
                                   ELSE NoFunc]
    /\ UNCHANGED <<regvars, lock, ncalls>>
    /\ Untouched

\* return {job_id: dict(data) for job_id, data in self._jobs.items()}
ListCopy(t) ==
    /\ Step(t, "copyall")
    /\ cs' = [cs EXCEPT ![t].pc = "unlock",
                        ![t].ret = [job_id \in DOMAIN jobs |-> CopyDict(jobs[job_id])]]
    /\ UNCHANGED <<regvars, lock, ncalls>>
    /\ Untouched

InitLock == InitRegistry

NextLock ==
    \E t \in Threads :
        \/ CallCreate(t) \/ CallUpdate(t) \/ CallGet(t) \/ CallList(t)
        \/ LockAcquire(t) \/ LockRelease(t)
        \/ CreateStore(t)
        \/ UpdateGet(t) \/ UpdateStatus(t) \/ UpdateProgress(t)
        \/ UpdateMessage(t) \/ UpdateLog(t) \/ UpdateTouch(t)
        \/ GetCopy(t) \/ ListCopy(t)

SpecLock == InitLock /\ [][NextLock]_vars

(* ------------------------------------------------------------------ *)
(* Claims about the lock, checked under SpecLock                       *)
(* ------------------------------------------------------------------ *)

Fields == {"status", "progress", "message", "log_line"}

\* The fields an update call was given.
Supplied(a) == {f \in Fields : a[f] # None}

\* The place of each field's assignment in update_job's body, and how far
\* into the body a position is.
Order(f) ==
    CASE f = "status" -> 1 [] f = "progress" -> 2
      [] f = "message" -> 3 [] f = "log_line" -> 4
Reached(pc) ==
    CASE pc = "status" -> 1 [] pc = "progress" -> 2 [] pc = "message" -> 3
      [] pc = "log" -> 4 [] pc = "touch" -> 5 [] OTHER -> 0

\* The supplied fields a thread's update call has written so far.
Applied(c) == {f \in Supplied(c.a) : Order(f) < Reached(c.pc)}

\* The call has written some of its fields and has others still to write.
Partial(c) == c.op = "update" /\ Applied(c) # {} /\ Applied(c) # Supplied(c.a)

\* Thread r takes its snapshot in this step, of job j among others.
Copies(r) == cs[r].pc \in {"copy", "copyall"} /\ cs'[r].pc = "unlock"
Reads(r, j) == cs[r].op = "list" \/ cs[r].id = j

NoPartialRead ==
    \A r \in Threads : \A u \in Threads \ {r} :
        (Copies(r) /\ Reads(r, cs[u].id)) => ~Partial(cs[u])

\* A thread is between the entry and the exit of a "with self._lock" block.
Inside(t) == cs[t].pc \notin {"idle", "lock"}
OneInside == Cardinality({t \in Threads : Inside(t)}) <= 1

\* C9: create, update, get and list are atomic with respect to one another:
\* at most one thread at a time is inside a method's locked block, and a get
\* or list never copies a record while an update call on it has written only
\* some of the fields it was given.
C9_Atomic == []OneInside /\ [][NoPartialRead]_vars

\* A reader has copied a stored record while an update call carrying
\* status, progress and message for that record waits for the lock.
C9_Witness ==
    \E r \in Threads : \E u \in Threads \ {r} :
        /\ cs[r].op \in {"get", "list"} /\ cs[r].pc = "unlock"
        /\ cs[u].id \in DOMAIN cs[r].ret
        /\ cs[u].op = "update" /\ cs[u].pc = "lock"
        /\ Cardinality(Supplied(cs[u].a)) = 3

(* ------------------------------------------------------------------ *)
(* SpecSandbox: resolve_workspace_path and workspace_path_from_name    *)
(* ------------------------------------------------------------------ *)

\* The names a caller may put in a path; ".." is the parent directory.
Components == {"..", "etc", "passwd", "ln"}

RECURSIVE SeqsUpTo(_, _)
SeqsUpTo(S, n) ==
    IF n = 0 THEN {Empty}
    ELSE SeqsUpTo(S, n - 1) \cup
         {Append(q, c) : q \in {p \in SeqsUpTo(S, n - 1) : Len(p) = n - 1}, c \in S}

\* The path strings of the model, relative and absolute.
PathArgs == {PathOf(abs, parts) : abs \in BOOLEAN, parts \in SeqsUpTo(Components, MaxPath)}

\* The workspace roots of the model: resolved directories below the
\* projects directory "p" (POST /api/workspace stores Path(raw).resolve()).
Roots == {<<"p">>, <<"p", "ws">>, <<"p", "etc", "passwd">>}

\* The file systems of the model: no symbolic link, or one link inside the
\* workspace ("ln", or the name of an export's output) that leads outside.
LinkNames == {"ln", "ep_edited.mp4"}
LinkTables(root) == {NoFunc} \cup {(Append(root, n) :> <<"etc">>) : n \in LinkNames}

\* Path.resolve(): the components are walked from the file system's root;
\* ".." drops the last component (the root's parent is the root) and a
\* symbolic link is replaced by its target.
RECURSIVE Walk(_, _, _)
Walk(L, at, rest) ==
    IF rest = Empty THEN at
    ELSE LET c == Head(rest)
             next == IF c = ".."
                     THEN (IF at = Empty THEN Empty ELSE SubSeq(at, 1, Len(at) - 1))
                     ELSE (IF Append(at, c) \in DOMAIN L THEN L[Append(at, c)]
                           ELSE Append(at, c))
         IN  Walk(L, next, Tail(rest))

resolve(L, parts) == Walk(L, Empty, parts)

\* WORKSPACE_DIR / rel: an absolute right operand replaces the left one.
JoinPath(root, rel) == IF rel.abs THEN rel.parts ELSE root \o rel.parts

\* Mutant: the containment test accepts every path.
relative_to_anything(candidate, root) == TRUE

\* candidate.relative_to(WORKSPACE_DIR) does not raise ValueError: the
\* root's components are the first components of the candidate.
relative_to(candidate, root) == IsPrefix(root, candidate)

\* resolve_workspace_path(relative_path), WORKSPACE_DIR set.
resolve_workspace_path(root, L, rel) ==
    LET candidate == resolve(L, JoinPath(root, rel))
    IN  IF relative_to(candidate, root) THEN Some(candidate) ELSE None

\* workspace_path_from_name(name), WORKSPACE_DIR set.
workspace_path_from_name(root, L, rel) ==
    LET candidate == IF rel.abs THEN resolve(L, rel.parts)
                     ELSE resolve(L, root \o rel.parts)
    IN  IF relative_to(candidate, root) THEN Some(candidate) ELSE None

InitSandbox ==
    /\ jobs = NoFunc
    /\ lists = NoFunc
    /\ issued = {}
    /\ clock = 0
    /\ lastCall = Call("init", 0, NoArgs)
    /\ ncalls = 0
    /\ snap = NoFunc
    /\ seen = NoFunc
    /\ thr = NoFunc
    /\ files = {}
    /\ tmpdirs = {}
    /\ lock = FALSE
    /\ cs = [t \in Threads |-> Idle]
    /\ WORKSPACE_DIR \in Roots
    /\ links \in LinkTables(WORKSPACE_DIR)
    /\ asked = [fn |-> "none", path |-> PathOf(FALSE, Empty)]
    /\ answer = None
    /\ NoWords
    /\ NoRequest

\* The two functions keep no state between calls: a run asks one question.
Unasked == asked.fn = "none"
SandboxFrame ==
    UNCHANGED <<regvars, apivars, wrkvars, lckvars, segvars, reqvars, WORKSPACE_DIR, links>>

AskResolve ==
    /\ Unasked
    /\ \E rel \in PathArgs :
          /\ asked' = [fn |-> "resolve_workspace_path", path |-> rel]
          /\ answer' = resolve_workspace_path(WORKSPACE_DIR, links, rel)
    /\ SandboxFrame

AskFromName ==
    /\ Unasked
    /\ \E rel \in PathArgs :
          /\ asked' = [fn |-> "workspace_path_from_name", path |-> rel]
          /\ answer' = workspace_path_from_name(WORKSPACE_DIR, links, rel)
    /\ SandboxFrame

NextSandbox == AskResolve \/ AskFromName

SpecSandbox == InitSandbox /\ [][NextSandbox]_vars

(* ------------------------------------------------------------------ *)
(* Claims about the sandbox, checked under SpecSandbox                 *)
(* ------------------------------------------------------------------ *)

\* A path with no ".." and no symbolic link on the way.
Canonical(p) == resolve(links, p) = p

\* What the sandbox returned is the root or lies below it.
AnswerInside ==
    answer # None => (IsPrefix(WORKSPACE_DIR, Val(answer)) /\ Canonical(Val(answer)))

DotDotEtcPasswd == PathOf(FALSE, <<"..", "..", "etc", "passwd">>)

\* The root is itself where "../../etc/passwd" leads from it.
RootIsTheTarget ==
    resolve(links, WORKSPACE_DIR \o DotDotEtcPasswd.parts) = WORKSPACE_DIR

\* C11 as it is stated: the answer is never outside the root, and
\* "../../etc/passwd" fails for every root.
C11_Original ==
    /\ AnswerInside
    /\ asked.path = DotDotEtcPasswd => answer = None

\* C11, amended: for every root and every caller-supplied path the sandbox
\* returns the root itself or a canonical path below it, or fails; and
\* "../../etc/passwd" fails for every root except one whose own last two
\* components are etc/passwd, where it names the root itself.
C11_SandboxContains ==
    /\ AnswerInside
    /\ (asked.path = DotDotEtcPasswd /\ ~RootIsTheTarget) => answer = None

\* The sandbox refused a path that leaves the root through "..", and
\* refused one that leaves it through a symbolic link.
C11_Witness ==
    /\ asked.fn # "none"
    /\ answer = None
    /\ \/ asked.path = DotDotEtcPasswd
       \/ (links # NoFunc /\ asked.path = PathOf(FALSE, <<"ln", "passwd">>))

(* ------------------------------------------------------------------ *)
(* SpecSegments: build_segments                                        *)
(* ------------------------------------------------------------------ *)

\* Word timestamps, in seconds.
Times == {0, 1, 2}

\* The edited words a request may carry: any start, any end (the handler
\* validates neither their order nor end > start), deleted or kept.
Words == [start : Times, end : Times, deleted : BOOLEAN]

WordLists == SeqsUpTo(Words, MaxWords)

\* current_segment = {'start': word['start'], 'end': word['end']}
Open(word) == [start |-> word.start, end |-> word.end]

\* Mutant: a kept word leaves the open segment's end where it was.
Extend_keeps_end(current_segment, word) == current_segment

\* current_segment['end'] = word['end']
Extend(current_segment, word) == [current_segment EXCEPT !.end = word.end]

\* The loop of build_segments from word i on; cur is None or the open
\* segment, out the segments closed so far. After the last word an open
\* segment is appended.
RECURSIVE SegmentLoop(_, _, _, _)
SegmentLoop(ws, i, cur, out) ==
    IF i > Len(ws)
    THEN (IF cur # None THEN Append(out, Val(cur)) ELSE out)
    ELSE IF ws[i].deleted
         THEN (IF cur # None
               THEN SegmentLoop(ws, i + 1, None, Append(out, Val(cur)))
               ELSE SegmentLoop(ws, i + 1, None, out))
         ELSE (IF cur = None
               THEN SegmentLoop(ws, i + 1, Some(Open(ws[i])), out)
               ELSE SegmentLoop(ws, i + 1, Some(Extend(Val(cur), ws[i])), out))

build_segments(edited_words) == SegmentLoop(edited_words, 1, None, Empty)

InitSegments == InitRegistry

\* build_segments(edited_words); the function keeps no state between calls:
\* a run makes one call.
BuildSegments ==
    /\ segments = None
    /\ \E edited_words \in WordLists :
          /\ words' = edited_words
          /\ segments' = Some(build_segments(edited_words))
    /\ UNCHANGED <<regvars, apivars, wrkvars, lckvars, sbxvars, reqvars>>

NextSegments == BuildSegments

SpecSegments == InitSegments /\ [][NextSegments]_vars

(* ------------------------------------------------------------------ *)
(* Claims about build_segments, checked under SpecSegments             *)
(* ------------------------------------------------------------------ *)

\* The maximal runs of consecutive kept words, as pairs of word indices.
Kept(ws, a, b) == \A i \in a..b : ~ws[i].deleted
Runs(ws) ==
    {r \in (1..Len(ws)) \X (1..Len(ws)) :
        /\ r[1] <= r[2]
        /\ Kept(ws, r[1], r[2])
        /\ (r[1] = 1 \/ ws[r[1] - 1].deleted)
        /\ (r[2] = Len(ws) \/ ws[r[2] + 1].deleted)}

\* The k-th run in input order: the one with k - 1 runs before it.
RunAt(ws, k) ==
    CHOOSE r \in Runs(ws) : Cardinality({q \in Runs(ws) : q[1] < r[1]}) = k - 1

\* One segment per maximal run, in input order, from the run's first
\* word's start to its last word's end.
OnePerRun(ws, segs) ==
    /\ Len(segs) = Cardinality(Runs(ws))
    /\ \A k \in 1..Len(segs) :
          segs[k] = [start |-> ws[RunAt(ws, k)[1]].start, end |-> ws[RunAt(ws, k)[2]].end]

SortedByStart(q) == \A k \in 1..Len(q), l \in 1..Len(q) : k < l => q[k].start <= q[l].start

\* The degenerate cases: nothing kept gives no segment, nothing deleted
\* gives one segment spanning the list.
Degenerate(ws, segs) ==
    /\ (\A i \in 1..Len(ws) : ws[i].deleted) => segs = Empty
    /\ (ws # Empty /\ \A i \in 1..Len(ws) : ~ws[i].deleted) =>
          segs = <<[start |-> ws[1].start, end |-> ws[Len(ws)].end]>>

\* C13 as it is stated: for all word lists the segments are one per maximal
\* run and sorted ascending by start.
C13_Original ==
    segments # None =>
        /\ OnePerRun(words, Val(segments))
        /\ SortedByStart(Val(segments))
        /\ Degenerate(words, Val(segments))

\* C13, amended: for all word lists build_segments returns exactly one
\* segment per maximal run of consecutive non-deleted words, in input order,
\* each from the start of the run's first word to the end of its last word;
\* the segments are sorted ascending by start when the words are; empty and
\* all-deleted input give an empty list and input with no deleted word gives
\* one segment from the first word's start to the last word's end.
C13_OneSegmentPerRun ==
    segments # None =>
        /\ OnePerRun(words, Val(segments))
        /\ SortedByStart(words) => SortedByStart(Val(segments))
        /\ Degenerate(words, Val(segments))

\* build_segments was given two kept words with different ends and then a
\* deleted one, and returned the one segment that spans the two.
C13_Witness ==
    /\ segments # None
    /\ Len(words) = 3 /\ ~words[1].deleted /\ ~words[2].deleted /\ words[3].deleted
    /\ words[1].end # words[2].end
    /\ Val(segments) = <<[start |-> words[1].start, end |-> words[2].end]>>

\* C14: every segment build_segments returns, and so every segment the
\* export receives, has end > start, whatever the word list.
C14_SegmentsPositive ==
    segments # None =>
        \A k \in 1..Len(Val(segments)) : Val(segments)[k].end > Val(segments)[k].start

(* ------------------------------------------------------------------ *)
(* Spec: the request handlers and the worker threads                   *)
(* ------------------------------------------------------------------ *)

\* A worker's update_job call on its own job.
JobUpdate(j, a) ==
    \E t \in time(clock) :
        /\ jobs' = update_job(jobs, j, a.status, a.progress, a.message, t)
        /\ lists' = update_logs(jobs, lists, j, a.log_line)
        /\ clock' = t
        /\ UNCHANGED issued

\* A handler's create_job call followed by thread.start().
StartJob(job_type, w) ==
    /\ Cardinality(DOMAIN jobs) < MaxWorkers
    /\ \E job_id \in uuid4(issued) :
         \E t1 \in time(clock) : \E t2 \in time(t1) :
            /\ jobs' = create_job(jobs, job_id, job_type, "label", t1, t2)
            /\ lists' = (job_id :> Empty) @@ lists
            /\ issued' = issued \cup {job_id}
            /\ clock' = t2
            /\ thr' = (job_id :> w) @@ thr

\* The locals of a worker thread. kind: the target function; pc: where it
\* stands; dur: the probed duration (0 when unknown); n, i, got: the export's
\* segment count, loop index and extracted segment indices; out: the export's
\* output path; rc: the exit code of the encoder (proxy) or of the merge
\* (export); made: whether the proxy target
\* exists; ret: the export's return value; exc: an exception is propagating;
\* src: the export's source path as the handler resolved it; tmp: the
\* export's temporary directory (0 before it has one); oks: the segments
\* whose extraction exited with 0 and left a non-empty file; manifest: the
\* lines of concat.txt once written; merge: the merge's exit code once it
\* has run; runs: the subprocess.run calls made; stuck: the removal of the
\* temporary directory has failed; line: the line of the process's output
\* read last; stream: the lines the script's process prints; pos: how many
\* of them have been read; stderr: result.stderr of the export's merge.
Thread(kind, n, out) ==
    [kind |-> kind, pc |-> "start", dur |-> 0, n |-> n, i |-> 0, got |-> <<>>,
     out |-> out, rc |-> 0, made |-> FALSE, ret |-> FALSE, exc |-> FALSE,
     src |-> Empty, tmp |-> 0, oks |-> {}, manifest |-> None, merge |-> None,
     runs |-> 0, stuck |-> FALSE, line |-> "", stream |-> <<>>, pos |-> 0,
     stderr |-> ""]

\* An export thread whose target function has returned ret: its locals are
\* gone, what it was called for and what it returned remain.
Returned(t, ret) ==
    [Thread(t.kind, 0, t.out) EXCEPT !.pc = "done", !.ret = ret, !.src = t.src]

At(j, kinds, pc) == j \in DOMAIN thr /\ thr[j].kind \in kinds /\ thr[j].pc = pc

Goto(j, pc) == thr' = [thr EXCEPT ![j].pc = pc]

Quiet == UNCHANGED <<regvars, apivars, lckvars, fnvars>>

\* f"ffmpeg exited with {retcode}", f"exit code {retcode}"
ExitedWith(text, rc) == <<text, rc>>

(* ---- run_ffmpeg_proxy ---- *)

Durations == {0, 10}          \* run_ffprobe_duration: None (0) or seconds

ProxyLines == {"out_time_ms=5000000", "out_time_ms=20000000", "out_time_ms=N/A",
               "out_time_ms=x", "progress=end", "frame=1"}

OutputPaths == {"ep_edited.mp4", "ep_edited.mp3"}

\* line.startswith("out_time_ms=")
IsTimeMarker(line) ==
    line \in {"out_time_ms=5000000", "out_time_ms=20000000", "out_time_ms=N/A",
              "out_time_ms=x"}

\* line.startswith("progress=")
IsStatusPhrase(line) == line \in {"progress=end"}

\* line.split("=", 1)[1]
AfterEquals(line) ==
    CASE line = "out_time_ms=5000000" -> "5000000"
      [] line = "out_time_ms=20000000" -> "20000000"
      [] line = "out_time_ms=N/A" -> "N/A"
      [] line = "out_time_ms=x" -> "x"
      [] line = "progress=end" -> "end"
      [] OTHER -> "1"

\* float(time_value) returns a number (no ValueError)
IsNumber(text) == text \in {"5000000", "20000000", "1"}

\* float(time_value)
Float(text) ==
    CASE text = "5000000" -> 5000000
      [] text = "20000000" -> 20000000
      [] OTHER -> 1

\* Mutant: the marker's value is taken for milliseconds.
ProxyProgress_milliseconds(out_time_ms, duration) == ((out_time_ms * 100) \div 1000) \div duration

\* (out_time_ms / 1_000_000.0) / duration * 100.0
ProxyProgress(out_time_ms, duration) == ((out_time_ms * 100) \div 1000000) \div duration

\* POST /api/create-proxy and auto_process_video: create_job("proxy", ...)
\* and a thread running run_ffmpeg_proxy.
StartProxy ==
    /\ StartJob("proxy", Thread("proxy", 0, ""))
    /\ UNCHANGED <<apivars, lckvars, fnvars, files, tmpdirs>>

\* source.is_file(), target.parent.mkdir(...), run_ffprobe_duration(source)
ProxyStart(j) ==
    /\ At(j, {"proxy"}, "start")
    /\ \/ /\ JobUpdate(j, Args(Some(FAILED), None, Some("Source not found"), None))
          /\ Goto(j, "done")
       \/ /\ \E d \in Durations : thr' = [thr EXCEPT ![j].pc = "spawn", ![j].dur = d]
          /\ UNCHANGED regvars
       \/ /\ thr' = [thr EXCEPT ![j].pc = "crashed", ![j].exc = TRUE]
          /\ UNCHANGED regvars
    /\ UNCHANGED <<apivars, lckvars, fnvars, files, tmpdirs>>

\* subprocess.Popen(cmd, ...) and the update that follows it
ProxySpawn(j) ==
    /\ At(j, {"proxy"}, "spawn")
    /\ \/ /\ JobUpdate(j, Args(Some(FAILED), None, Some("ffmpeg not installed or not in PATH"), None))
          /\ Goto(j, "done")
       \/ /\ JobUpdate(j, Args(Some(RUNNING), None, Some("encoding"), None))
          /\ Goto(j, "read")
    /\ UNCHANGED <<apivars, lckvars, fnvars, files, tmpdirs>>

\* One line of the encoder's output, classified by the loop body.
ProxyLine(j, line) ==
    IF IsTimeMarker(line) /\ thr[j].dur # 0
    THEN IF AfterEquals(line) # "N/A" /\ IsNumber(AfterEquals(line))
         THEN JobUpdate(j, Args(None, Some(ProxyProgress(Float(AfterEquals(line)), thr[j].dur)), None, None))
         ELSE UNCHANGED regvars
    ELSE IF IsStatusPhrase(line)
         THEN JobUpdate(j, Args(None, None, Some(AfterEquals(line)), None))
         ELSE /\ Len(LogsOf(lists, jobs[j])) < MaxLogs
              /\ JobUpdate(j, Args(None, None, None, Some(line)))

\* for line in process.stdout: one line read, the end of the stream, or an
\* error raised while reading.
ProxyRead(j) ==
    /\ At(j, {"proxy"}, "read")
    /\ \/ \E line \in ProxyLines :
            /\ ProxyLine(j, line)
            /\ thr' = [thr EXCEPT ![j].line = line]
       \/ /\ Goto(j, "wait")
          /\ UNCHANGED regvars
       \/ /\ thr' = [thr EXCEPT ![j].pc = "wait", ![j].exc = TRUE]
          /\ UNCHANGED regvars
    /\ UNCHANGED <<apivars, lckvars, fnvars, files, tmpdirs>>

\* Mutant: the target file is not looked at.
ProxySucceeded_by_exit_code(retcode, made) == retcode = 0

\* if retcode == 0 and target.is_file():
ProxySucceeded(retcode, made) == retcode = 0 /\ made

\* finally: retcode = process.wait(); target.is_file(); the terminal update
ProxyWait(j) ==
    /\ At(j, {"proxy"}, "wait")
    /\ \E rc \in {0, 1}, made \in BOOLEAN :
        /\ IF ProxySucceeded(rc, made)
           THEN JobUpdate(j, Args(Some(COMPLETED), Some(100), Some("proxy ready"), None))
           ELSE JobUpdate(j, Args(Some(FAILED), None, Some(ExitedWith("ffmpeg exited with", rc)), None))
        /\ thr' = [thr EXCEPT ![j].pc = IF thr[j].exc THEN "crashed" ELSE "done",
                              ![j].rc = rc, ![j].made = made]
    /\ UNCHANGED <<apivars, lckvars, fnvars, files, tmpdirs>>

(* ---- run_script_job ---- *)

\* Lines as the text stream yields them, with their line ends.
ScriptLines == {"a\n", "b \n", "\n"}

\* line.rstrip()
rstrip(line) ==
    CASE line = "a\n" -> "a"
      [] line = "b \n" -> "b"
      [] OTHER -> ""

\* What the process prints before it exits.
ScriptOutputs == SeqsUpTo(ScriptLines, MaxLogs)

\* POST /api/run-script and auto_process_video: create_job("script", ...)
\* and a thread running run_script_job.
StartScript ==
    /\ StartJob("script", Thread("script", 0, ""))
    /\ UNCHANGED <<apivars, lckvars, fnvars, files, tmpdirs>>

\* script.is_file(), subprocess.Popen(["python3", script]) and the update
\* that follows
ScriptStart(j) ==
    /\ At(j, {"script"}, "start")
    /\ \/ /\ JobUpdate(j, Args(Some(FAILED), None, Some("Script not found"), None))
          /\ Goto(j, "done")
       \/ /\ JobUpdate(j, Args(Some(FAILED), None, Some("python3 not available"), None))
          /\ Goto(j, "done")
       \/ /\ JobUpdate(j, Args(Some(RUNNING), None, Some("running"), None))
          /\ \E stream \in ScriptOutputs :
                thr' = [thr EXCEPT ![j].pc = "read", ![j].runs = 1, ![j].stream = stream]
    /\ UNCHANGED <<apivars, lckvars, fnvars, files, tmpdirs>>

\* for line in process.stdout: update_job(job_id, log_line=line.rstrip());
\* the next line is read and logged, the stream is at its end, or the next
\* line cannot be decoded and the error leaves the loop.
ScriptRead(j) ==
    /\ At(j, {"script"}, "read")
    /\ IF thr[j].pos < Len(thr[j].stream)
       THEN \/ /\ JobUpdate(j, Args(None, None, None,
                                    Some(rstrip(thr[j].stream[thr[j].pos + 1]))))
               /\ thr' = [thr EXCEPT ![j].pos = @ + 1,
                                     ![j].line = thr[j].stream[thr[j].pos + 1]]
            \/ /\ thr' = [thr EXCEPT ![j].pc = "wait", ![j].exc = TRUE]
               /\ UNCHANGED regvars
       ELSE /\ Goto(j, "wait")
            /\ UNCHANGED regvars
    /\ UNCHANGED <<apivars, lckvars, fnvars, files, tmpdirs>>

\* Mutant: the exit code is not looked at.
ScriptSucceeded_always(retcode) == TRUE

\* if retcode == 0:
ScriptSucceeded(retcode) == retcode = 0

\* finally: retcode = process.wait(); the terminal update
ScriptWait(j) ==
    /\ At(j, {"script"}, "wait")
    /\ \E rc \in {0, 1} :
        /\ IF ScriptSucceeded(rc)
           THEN JobUpdate(j, Args(Some(COMPLETED), Some(100), Some("completed"), None))
           ELSE JobUpdate(j, Args(Some(FAILED), None, Some(ExitedWith("exit code", rc)), None))
        /\ thr' = [thr EXCEPT ![j].pc = IF thr[j].exc THEN "crashed" ELSE "done", ![j].rc = rc]
    /\ UNCHANGED <<apivars, lckvars, fnvars, files, tmpdirs>>

(* ---- export_video_ffmpeg, export_audio_ffmpeg ---- *)

ExportKinds == {"video", "audio"}

\* f"{stem}_edited.mp4" / f"{stem}_edited.mp3" under the workspace; the
\* model exports one source, so two exports of one kind share their output.
OutputPath(kind) == IF kind = "video" THEN "ep_edited.mp4" ELSE "ep_edited.mp3"

\* The videoFile / sourceFile of an export request: the episode, and a path
\* that leaves the workspace.
SourceArgs == {PathOf(FALSE, <<"ep.mp4">>), PathOf(FALSE, <<"..", "etc", "passwd">>)}

\* output_path = WORKSPACE_DIR / output_filename
OutputFile(root, name) == Append(root, name)

\* (i / len(segments)) * 50
\* Mutant: the segments are counted from one.
SegmentProgress_from_one(i, n) == ((i + 1) * 50) \div n

SegmentProgress(i, n) == (i * 50) \div n

\* f"Extracting segment {i+1}/{len(segments)}"
SegmentMessage(i, n) == <<"Extracting segment", i + 1, n>>

\* POST /api/export-video, /api/export-audio: build_segments gave n >= 1
\* segments; create_job("export", ...) and a thread running the export.
StartExport ==
    /\ \E kind \in ExportKinds, n \in 1..MaxSegs, name \in SourceArgs :
         LET source_path == workspace_path_from_name(WORKSPACE_DIR, links, name)
         IN  /\ source_path # None
             /\ StartJob("export", [Thread(kind, n, OutputPath(kind))
                                       EXCEPT !.src = Val(source_path)])
    /\ UNCHANGED <<apivars, lckvars, fnvars, files, tmpdirs>>

\* Mutant: the empty segment list is not rejected.
NoSegments_accepted(n) == FALSE

\* if not segments:
NoSegments(n) == n = 0

\* Mutant: an empty list of extracted files goes on to the merge.
NoneExtracted_ignored(segment_files) == FALSE

\* if not segment_files:
NoneExtracted(segment_files) == segment_files = Empty

\* Mutant: a non-zero exit of the merge is not looked at.
MergeFailed_tolerated(returncode) == FALSE

\* if result.returncode != 0:
MergeFailed(returncode) == returncode # 0

\* The names tempfile gives its directories.
TmpNames == 1..(MaxWorkers + 1)

\* tempfile.mkdtemp(): a directory that did not exist is created; the names
\* are random, the model takes them in one fixed order.
mkdtemp(existing) ==
    IF TmpNames \ existing = {} THEN {}
    ELSE {CHOOSE d \in TmpNames \ existing : \A e \in TmpNames \ existing : d <= e}

\* Mutant: the directory is left in place.
rmtree_keeps(existing, d) == existing

\* TemporaryDirectory.cleanup(): shutil.rmtree(name)
rmtree(existing, d) == existing \ {d}

\* if not segments: ...; if output_path.exists():
ExportStart(j) ==
    /\ At(j, ExportKinds, "start")
    /\ IF NoSegments(thr[j].n)
       THEN /\ JobUpdate(j, Args(Some(FAILED), None, Some("No segments to export"), None))
            /\ thr' = [thr EXCEPT ![j] = Returned(@, FALSE)]
       ELSE /\ Goto(j, IF thr[j].out \in files THEN "unlink" ELSE "mktemp")
            /\ UNCHANGED regvars
    /\ UNCHANGED <<apivars, lckvars, fnvars, files, tmpdirs>>

\* output_path.unlink(): FileNotFoundError when the file is gone by now
ExportUnlink(j) ==
    /\ At(j, ExportKinds, "unlink")
    /\ IF thr[j].out \in files
       THEN /\ files' = files \ {thr[j].out}
            /\ Goto(j, "mktemp")
       ELSE /\ UNCHANGED files
            /\ thr' = [thr EXCEPT ![j].pc = "except", ![j].exc = TRUE]
    /\ UNCHANGED <<regvars, apivars, lckvars, fnvars, tmpdirs>>

\* with tempfile.TemporaryDirectory() as temp_dir: segment_files = []
ExportMktemp(j) ==
    /\ At(j, ExportKinds, "mktemp")
    /\ \E d \in mkdtemp(tmpdirs) :
          /\ tmpdirs' = tmpdirs \cup {d}
          /\ thr' = [thr EXCEPT ![j].tmp = d,
                                ![j].pc = IF thr[j].i < thr[j].n THEN "seg" ELSE "concat"]
    /\ UNCHANGED <<regvars, apivars, lckvars, fnvars, files>>

\* The loop body up to subprocess.run(cmd): the progress update and the
\* start of the extraction of segment i.
ExportSeg(j) ==
    /\ At(j, ExportKinds, "seg")
    /\ JobUpdate(j, Args(None, Some(SegmentProgress(thr[j].i, thr[j].n)),
                         Some(SegmentMessage(thr[j].i, thr[j].n)), None))
    /\ thr' = [thr EXCEPT ![j].pc = "seg_wait", ![j].runs = @ + 1]
    /\ UNCHANGED <<apivars, lckvars, fnvars, files, tmpdirs>>

\* subprocess.run returns: non-zero exit, a usable segment file, a missing
\* or empty one; or it raises because the encoder cannot be started.
ExportSegWait(j) ==
    /\ At(j, ExportKinds, "seg_wait")
    /\ \/ \E rc \in {0, 1}, usable \in BOOLEAN :
            thr' = [thr EXCEPT ![j].got = IF rc = 0 /\ usable THEN Append(@, thr[j].i) ELSE @,
                               ![j].oks = IF rc = 0 /\ usable THEN @ \cup {thr[j].i} ELSE @,
                               ![j].i = @ + 1,
                               ![j].pc = IF thr[j].i + 1 < thr[j].n THEN "seg" ELSE "concat"]
       \/ thr' = [thr EXCEPT ![j].pc = "unwind", ![j].exc = TRUE]
    /\ UNCHANGED <<regvars, apivars, lckvars, fnvars, files, tmpdirs>>

\* if not segment_files: ...; the concat file, the progress update and the
\* start of the merge.
ExportConcat(j) ==
    /\ At(j, ExportKinds, "concat")
    /\ IF NoneExtracted(thr[j].got)
       THEN /\ JobUpdate(j, Args(Some(FAILED), None, Some("Failed to extract segments"), None))
            /\ Goto(j, "cleanup")
       ELSE /\ JobUpdate(j, Args(None, Some(60), Some("Concatenating segments"), None))
            /\ thr' = [thr EXCEPT ![j].pc = "concat_wait", ![j].manifest = Some(thr[j].got),
                                  ![j].runs = @ + 1]
    /\ UNCHANGED <<apivars, lckvars, fnvars, files, tmpdirs>>

\* What an encoder that exits with returncode writes to its error output.
ErrorOutput(returncode) == IF returncode = 0 THEN "" ELSE "Invalid data found"

\* The merge process ends, with or without having written the output; or
\* subprocess.run raises because the encoder cannot be started.
ExportConcatWait(j) ==
    /\ At(j, ExportKinds, "concat_wait")
    /\ \/ \E rc \in {0, 1}, written \in BOOLEAN :
            /\ files' = IF written THEN files \cup {thr[j].out} ELSE files
            /\ thr' = [thr EXCEPT ![j].rc = rc, ![j].merge = Some(rc), ![j].pc = "verify",
                                  ![j].stderr = ErrorOutput(rc)]
       \/ /\ thr' = [thr EXCEPT ![j].pc = "unwind", ![j].exc = TRUE]
          /\ UNCHANGED files
    /\ UNCHANGED <<regvars, apivars, lckvars, fnvars, tmpdirs>>

\* if result.returncode != 0: ...; if not output_path.exists(): ...
ExportVerify(j) ==
    /\ At(j, ExportKinds, "verify")
    /\ IF MergeFailed(thr[j].rc)
       THEN /\ JobUpdate(j, Args(Some(FAILED), None, Some("Concatenation failed"), None))
            /\ Goto(j, "cleanup")
       ELSE IF thr[j].out \notin files
       THEN /\ JobUpdate(j, Args(Some(FAILED), None, Some("Output file not created"), None))
            /\ Goto(j, "cleanup")
       ELSE /\ Goto(j, "stat")
            /\ UNCHANGED regvars
    /\ UNCHANGED <<apivars, lckvars, fnvars, files, tmpdirs>>

\* file_size = output_path.stat().st_size: FileNotFoundError when the file
\* is gone by now
ExportStat(j) ==
    /\ At(j, ExportKinds, "stat")
    /\ IF thr[j].out \in files
       THEN Goto(j, "complete")
       ELSE thr' = [thr EXCEPT ![j].pc = "unwind", ![j].exc = TRUE]
    /\ UNCHANGED <<regvars, apivars, lckvars, fnvars, files, tmpdirs>>

\* update_job(status=COMPLETED, progress=100.0, ...); return True
ExportComplete(j) ==
    /\ At(j, ExportKinds, "complete")
    /\ JobUpdate(j, Args(Some(COMPLETED), Some(100), Some("Export completed"), None))
    /\ thr' = [thr EXCEPT ![j].pc = "cleanup", ![j].ret = TRUE]
    /\ UNCHANGED <<apivars, lckvars, fnvars, files, tmpdirs>>

\* Leaving the with block on a return: TemporaryDirectory.cleanup() removes
\* the directory, or raises OSError into the except clause.
ExportCleanup(j) ==
    /\ At(j, ExportKinds, "cleanup")
    /\ \/ /\ tmpdirs' = rmtree(tmpdirs, thr[j].tmp)
          /\ thr' = [thr EXCEPT ![j] = Returned(@, thr[j].ret)]
       \/ /\ UNCHANGED tmpdirs
          /\ thr' = [thr EXCEPT ![j].pc = "except", ![j].exc = TRUE, ![j].stuck = TRUE]
    /\ UNCHANGED <<regvars, apivars, lckvars, fnvars, files>>

\* Leaving the with block on an exception: cleanup, then the except clause.
ExportUnwind(j) ==
    /\ At(j, ExportKinds, "unwind")
    /\ \/ /\ tmpdirs' = rmtree(tmpdirs, thr[j].tmp)
          /\ thr' = [thr EXCEPT ![j].pc = "except", ![j].tmp = 0]
       \/ /\ UNCHANGED tmpdirs
          /\ thr' = [thr EXCEPT ![j].pc = "except", ![j].stuck = TRUE]
    /\ UNCHANGED <<regvars, apivars, lckvars, fnvars, files>>

\* except Exception as e: update_job(status=FAILED, message=str(e)); return False
ExportExcept(j) ==
    /\ At(j, ExportKinds, "except")
    /\ JobUpdate(j, Args(Some(FAILED), None, Some("error"), None))
    /\ thr' = [thr EXCEPT ![j] = Returned(@, FALSE)]
    /\ UNCHANGED <<apivars, lckvars, fnvars, files, tmpdirs>>

\* The server has just started: no job, no worker. The workspace may hold
\* the output of an earlier export, and a symbolic link. Spec's claims read no timestamp, so its
\* clock stands at the last tick of the model.
Init ==
    /\ jobs = NoFunc
    /\ lists = NoFunc
    /\ issued = {}
    /\ clock = MaxClock
    /\ lastCall = Call("init", 0, NoArgs)
    /\ ncalls = 0
    /\ snap = NoFunc
    /\ seen = NoFunc
    /\ thr = NoFunc
    /\ files \in SUBSET OutputPaths
    /\ tmpdirs = {}
    /\ lock = FALSE
    /\ cs = [t \in Threads |-> Idle]
    /\ WORKSPACE_DIR = <<"p", "ws">>
    /\ links \in LinkTables(WORKSPACE_DIR)
    /\ asked = [fn |-> "none", path |-> PathOf(FALSE, Empty)]
    /\ answer = None
    /\ NoWords
    /\ NoRequest

Next ==
    \/ StartProxy
    \/ StartScript
    \/ StartExport
    \/ \E j \in JobIds :
        \/ ProxyStart(j)
        \/ ProxySpawn(j)
        \/ ProxyRead(j)
        \/ ProxyWait(j)
        \/ ScriptStart(j)
        \/ ScriptRead(j)
        \/ ScriptWait(j)
        \/ ExportStart(j)
        \/ ExportUnlink(j)
        \/ ExportMktemp(j)
        \/ ExportSeg(j)
        \/ ExportSegWait(j)
        \/ ExportConcat(j)
        \/ ExportConcatWait(j)
        \/ ExportVerify(j)
        \/ ExportStat(j)
        \/ ExportComplete(j)
        \/ ExportCleanup(j)
        \/ ExportUnwind(j)
        \/ ExportExcept(j)

Spec == Init /\ [][Next]_vars

(* ------------------------------------------------------------------ *)
(* SpecExport: export_video_ffmpeg / export_audio_ffmpeg called with   *)
(* any segment list                                                    *)
(* ------------------------------------------------------------------ *)

\* The workspace may hold the output of an earlier export; no job exists.
InitExport ==
    /\ jobs = NoFunc
    /\ lists = NoFunc
    /\ issued = {}
    /\ clock = MaxClock
    /\ lastCall = Call("init", 0, NoArgs)
    /\ ncalls = 0
    /\ snap = NoFunc
    /\ seen = NoFunc
    /\ thr = NoFunc
    /\ files \in SUBSET OutputPaths
    /\ tmpdirs = {}
    /\ lock = FALSE
    /\ cs = [t \in Threads |-> Idle]
    /\ NoSandbox
    /\ NoWords
    /\ NoRequest

\* export_video_ffmpeg(job_id, video_path, segments, output_path) or
\* export_audio_ffmpeg(...) is called on a thread of its own, for a job just
\* created, with a list of n segments; n may be 0.
CallExport ==
    /\ Cardinality(DOMAIN thr) < MaxExports
    /\ \E kind \in ExportKinds, n \in 0..MaxSegs, job_id \in uuid4(issued) :
          /\ jobs' = create_job(jobs, job_id, "export", "label", clock, clock)
          /\ lists' = (job_id :> Empty) @@ lists
          /\ issued' = issued \cup {job_id}
          /\ thr' = (job_id :> Thread(kind, n, OutputPath(kind))) @@ thr
    /\ UNCHANGED <<clock, apivars, lckvars, fnvars, files, tmpdirs>>

NextExport ==
    \/ CallExport
    \/ \E j \in JobIds :
        \/ ExportStart(j)
        \/ ExportUnlink(j)
        \/ ExportMktemp(j)
        \/ ExportSeg(j)
        \/ ExportSegWait(j)
        \/ ExportConcat(j)
        \/ ExportConcatWait(j)
        \/ ExportVerify(j)
        \/ ExportStat(j)
        \/ ExportComplete(j)
        \/ ExportCleanup(j)
        \/ ExportUnwind(j)
        \/ ExportExcept(j)

SpecExport == InitExport /\ [][NextExport]_vars

(* ------------------------------------------------------------------ *)
(* Claims about the job state machine, checked under Spec              *)
(* ------------------------------------------------------------------ *)

\* C1: once a job's status is completed or failed, no later update call
\* changes that job's status.
C1_TerminalStatusFinal ==
    [][\A j \in DOMAIN jobs :
          jobs[j].status \in Terminal => jobs'[j].status = jobs[j].status]_vars

\* The full state machine of C2: pending -> running -> {completed, failed}.
StatusMachine ==
    \A j \in DOMAIN jobs :
        jobs'[j].status # jobs[j].status =>
            <<jobs[j].status, jobs'[j].status>> \in
                {<<PENDING, RUNNING>>, <<RUNNING, COMPLETED>>, <<RUNNING, FAILED>>}

\* C2: the only status changes are pending -> running, running -> completed
\* and running -> failed; stated here in the claim's own particular: no job
\* becomes completed unless its status was running just before.
C2_CompletedOnlyFromRunning ==
    [][\A j \in DOMAIN jobs :
          (jobs'[j].status = COMPLETED /\ jobs[j].status # COMPLETED) =>
              jobs[j].status = RUNNING]_vars

\* The worker thread of job j has ended: it returned, or an exception left
\* its target function.
Ended(j) == thr[j].pc \in {"done", "crashed"}

\* C3: every job whose worker has been started reaches status completed or
\* failed on every path of the worker; a worker takes finitely many steps,
\* so this says that a worker that has ended left its job completed or
\* failed.
C3_EndedWorkerIsTerminal ==
    \A j \in DOMAIN thr : Ended(j) => jobs[j].status \in Terminal

(* ------------------------------------------------------------------ *)
(* Claims about the export handlers, checked under Spec                *)
(* ------------------------------------------------------------------ *)

\* Path p is what the sandbox returns for it: canonical and inside the root.
Sandboxed(p) ==
    workspace_path_from_name(WORKSPACE_DIR, links, PathOf(TRUE, p)) = Some(p)

\* C12: for every export request, the source media path and the output
\* path the export worker uses on disk are both results of the workspace
\* sandbox resolution.
C12_ExportPathsSandboxed ==
    \A j \in DOMAIN thr :
        thr[j].kind \in ExportKinds =>
            /\ Sandboxed(thr[j].src)
            /\ Sandboxed(OutputFile(WORKSPACE_DIR, thr[j].out))

(* ------------------------------------------------------------------ *)
(* Claims about the export pipeline, checked under SpecExport          *)
(* ------------------------------------------------------------------ *)

\* Export thread j is inside its target function.
Exporting(j) == thr[j].kind \in ExportKinds /\ thr[j].pc # "done"

\* Export thread j's target function returns in this step.
Returns(j) == Exporting(j) /\ thr'[j].pc = "done"

\* Thread j takes a step.
Steps(j) == thr'[j] # thr[j]

\* An export called with no segment returns at once: job failed, nothing to
\* export, False returned, no process run, no file or directory touched.
EmptyRejected ==
    \A j \in DOMAIN thr :
        (Exporting(j) /\ thr[j].pc = "start" /\ thr[j].n = 0 /\ Steps(j)) =>
            /\ Returns(j)
            /\ thr'[j].ret = FALSE
            /\ jobs'[j].status = FAILED
            /\ jobs'[j].message = "No segments to export"
            /\ thr[j].runs = 0
            /\ files' = files
            /\ tmpdirs' = tmpdirs

\* C15: an export (audio or video) called with an empty segment list sets
\* the job to failed with the nothing-to-export message, returns false,
\* invokes no external process and neither creates nor removes the file at
\* the output path.
C15_EmptyRejected == [][EmptyRejected]_vars

\* An export called with no segment has returned; the output file that was
\* there before is still there.
C15_Witness ==
    \E j \in DOMAIN thr :
        /\ thr[j].pc = "done" /\ thr[j].ret = FALSE
        /\ jobs[j].status = FAILED /\ jobs[j].message = "No segments to export"
        /\ thr[j].out \in files

\* The elements of a set of segment indices in ascending order.
Ascending(S) ==
    CHOOSE q \in [1..Cardinality(S) -> S] :
        \A k \in 1..Cardinality(S), l \in 1..Cardinality(S) : k < l => q[k] < q[l]

\* The manifest, once written, lists exactly the segments whose extraction
\* succeeded, in segment order.
ManifestRight ==
    \A j \in DOMAIN thr :
        (Exporting(j) /\ thr[j].manifest # None) =>
            Val(thr[j].manifest) = Ascending(thr[j].oks)

\* Some extractions failed, at least one succeeded, the merge exited with 0
\* and the output exists: the export returns with the job completed.
PartialEndsCompleted ==
    \A j \in DOMAIN thr :
        (/\ Returns(j)
         /\ thr[j].oks # {} /\ Cardinality(thr[j].oks) < thr[j].n
         /\ thr[j].merge = Some(0)
         /\ thr[j].out \in files) => jobs'[j].status = COMPLETED

\* C16: in an export where some extractions fail and at least one succeeds,
\* the concatenation manifest lists exactly the successfully extracted
\* segment files in the original order, and if the merge then exits zero
\* and the output exists the job ends completed.
C16_PartialSuccessCompletes == []ManifestRight /\ [][PartialEndsCompleted]_vars

\* The merge is prepared and run only after some extraction succeeded.
MergeNeedsSegment ==
    \A j \in DOMAIN thr :
        (Exporting(j) /\ (thr[j].manifest # None \/ thr[j].merge # None)) =>
            thr[j].oks # {}

\* An export that returns with no extraction having succeeded leaves the
\* job failed and returns False, and no job becomes completed without a
\* successful extraction.
NoneExtractedIsFatal ==
    \A j \in DOMAIN thr :
        /\ (Returns(j) /\ thr[j].n > 0 /\ thr[j].oks = {}) =>
              (jobs'[j].status = FAILED /\ thr'[j].ret = FALSE)
        /\ (Exporting(j) /\ jobs'[j].status = COMPLETED) => thr[j].oks # {}

\* During the extraction phase the job is set to failed only when every
\* extraction has been tried and none succeeded.
ExtractionFatalOnlyIfNone ==
    \A j \in DOMAIN thr :
        (/\ Exporting(j) /\ thr[j].pc \in {"seg", "seg_wait", "concat"}
         /\ jobs'[j].status = FAILED /\ jobs[j].status # FAILED) =>
            (thr[j].oks = {} /\ thr[j].i = thr[j].n)

\* The export returns with no extraction having succeeded (every one ran
\* and failed, or an exception ended the call): the message is the
\* failed-to-extract one.
NoneExtractedMessage ==
    \A j \in DOMAIN thr :
        (Returns(j) /\ thr[j].n > 0 /\ thr[j].oks = {}) =>
            jobs'[j].message = "Failed to extract segments"

\* The same for an export that returns without an exception having been
\* raised.
NoneExtractedMessageNoRaise ==
    \A j \in DOMAIN thr :
        (Returns(j) /\ thr[j].pc = "cleanup" /\ thr[j].n > 0 /\ thr[j].oks = {}) =>
            jobs'[j].message = "Failed to extract segments"

MergeFailureEndsFailed ==
    \A j \in DOMAIN thr :
        (Returns(j) /\ thr[j].merge # None /\ Val(thr[j].merge) # 0) =>
            (jobs'[j].status = FAILED /\ thr'[j].ret = FALSE)

\* No step of an export sets the job completed unless its merge exited zero.
CompletedNeedsMergeZero ==
    \A j \in DOMAIN thr :
        (Exporting(j) /\ jobs'[j].status = COMPLETED /\ jobs[j].status # COMPLETED) =>
            thr[j].merge = Some(0)

\* C18: a merge that exits non-zero makes the job end failed, whatever
\* extractions succeeded before it and whether or not an output file was
\* written; the job is never completed after a non-zero merge.
C18_MergeFailureFatal == [][MergeFailureEndsFailed /\ CompletedNeedsMergeZero]_vars

\* An export has returned False after a failed merge that left an output
\* file behind.
C18_Witness ==
    \E j \in DOMAIN thr :
        /\ thr[j].pc = "done" /\ thr[j].ret = FALSE /\ thr[j].out \in files
        /\ jobs[j].status = FAILED /\ jobs[j].message = "Concatenation failed"

\* Export j holds a temporary directory.
Holding(j) == Exporting(j) /\ thr[j].tmp # 0

\* The directory an export creates did not exist before, and no two
\* exports hold the same directory.
FreshDirectory ==
    \A j \in DOMAIN thr :
        (thr[j].tmp = 0 /\ thr'[j].tmp # 0) => thr'[j].tmp \notin tmpdirs

DirectoriesDistinct ==
    \A j \in DOMAIN thr : \A k \in DOMAIN thr \ {j} :
        (Holding(j) /\ Holding(k)) => thr[j].tmp # thr[k].tmp

\* A directory an export holds exists.
HeldExists ==
    \A j \in DOMAIN thr : Holding(j) => thr[j].tmp \in tmpdirs

\* An export gives up its directory when the with block is left, at the
\* latest when it returns: the directory is then gone.
GivesUp(j) == Exporting(j) /\ thr[j].tmp # 0 /\ thr'[j].tmp = 0

RemovedOnExit ==
    \A j \in DOMAIN thr :
        /\ (Returns(j) /\ thr[j].tmp # 0) => GivesUp(j)
        /\ GivesUp(j) => thr[j].tmp \notin tmpdirs'

\* The same, for an export whose removal of the directory did not fail.
RemovedOnExitUnlessStuck ==
    \A j \in DOMAIN thr :
        /\ (Returns(j) /\ thr[j].tmp # 0) => GivesUp(j)
        /\ (GivesUp(j) /\ ~thr[j].stuck) => thr[j].tmp \notin tmpdirs'

ProgressByPhase ==
    \A j \in DOMAIN thr :
        /\ (Exporting(j) /\ thr[j].pc = "seg_wait") =>
              jobs[j].progress = (50 * thr[j].i) \div thr[j].n
        /\ (Exporting(j) /\ thr[j].pc = "concat_wait") => jobs[j].progress = 60

\* Throughout the extraction phase the progress is below 50.
ExtractionBelowFifty ==
    \A j \in DOMAIN thr :
        (Exporting(j) /\ thr[j].pc \in {"seg", "seg_wait", "concat"}) =>
            jobs[j].progress < 50

\* The step that sets the progress to 100 sets the status to completed.
HundredWithCompleted ==
    \A j \in DOMAIN thr :
        (Exporting(j) /\ jobs'[j].progress = 100 /\ jobs[j].progress # 100) =>
            (jobs'[j].status = COMPLETED /\ jobs[j].status # COMPLETED)

\* No step lowers the progress of an export job.
ProgressMonotone ==
    \A j \in DOMAIN thr : jobs'[j].progress >= jobs[j].progress

\* C20: the progress of an export of n segments is set to 50*i/n immediately
\* before segment i (from 0) is extracted, to 60 when the merge starts and
\* to 100 only in the step that sets the status completed; it never
\* decreases and is below 50 throughout the extraction phase.
C20_ProgressSchedule ==
    /\ [](ProgressByPhase /\ ExtractionBelowFifty)
    /\ [][HundredWithCompleted /\ ProgressMonotone]_vars

\* The second of two segments is being extracted at progress 25.
C20_Witness ==
    \E j \in DOMAIN thr :
        /\ thr[j].pc = "seg_wait" /\ thr[j].n = 2 /\ thr[j].i = 1
        /\ jobs[j].progress = 25

(* ------------------------------------------------------------------ *)
(* SpecRace: several video exports of one source, hence of one output  *)
(* path, running at once                                               *)
(* ------------------------------------------------------------------ *)

InitRace == InitExport

\* POST /api/export-video for the same videoFile: each request creates a
\* job and starts a thread of its own; output_path is the same for all.
CallRace ==
    /\ Cardinality(DOMAIN thr) < MaxRacers
    /\ \E job_id \in uuid4(issued) :
          /\ jobs' = create_job(jobs, job_id, "export", "label", clock, clock)
          /\ lists' = (job_id :> Empty) @@ lists
          /\ issued' = issued \cup {job_id}
          /\ thr' = (job_id :> Thread("video", 1, OutputPath("video"))) @@ thr
    /\ UNCHANGED <<clock, apivars, lckvars, fnvars, files, tmpdirs>>

NextRace ==
    \/ CallRace
    \/ \E j \in JobIds :
        \/ ExportStart(j)
        \/ ExportUnlink(j)
        \/ ExportMktemp(j)
        \/ ExportSeg(j)
        \/ ExportSegWait(j)
        \/ ExportConcat(j)
        \/ ExportConcatWait(j)
        \/ ExportVerify(j)
        \/ ExportStat(j)
        \/ ExportComplete(j)
        \/ ExportCleanup(j)
        \/ ExportUnwind(j)
        \/ ExportExcept(j)

SpecRace == InitRace /\ [][NextRace]_vars

\* The step that makes an export job completed leaves a file at the job's
\* output path.
CompletedHasOutput ==
    \A j \in DOMAIN thr :
        (Exporting(j) /\ jobs'[j].status = COMPLETED /\ jobs[j].status # COMPLETED) =>
            thr[j].out \in files'

\* The check after a merge that exited zero: with no output file the job is
\* set to failed, output file not created.
AbsentOutputFails ==
    \A j \in DOMAIN thr :
        (/\ Exporting(j) /\ thr[j].pc = "verify" /\ Steps(j)
         /\ thr[j].merge = Some(0) /\ thr[j].out \notin files) =>
            (jobs'[j].status = FAILED /\ jobs'[j].message = "Output file not created")

\* C21: an export job becomes completed only while a file exists at its
\* output path, also when several exports of one output path run at once;
\* when the output is absent after a merge that exited zero the job is set
\* to failed with the output-file-not-created message.
C21_CompletedHasOutput == [][CompletedHasOutput /\ AbsentOutputFails]_vars

(* ------------------------------------------------------------------ *)
(* SpecProxy: one call of run_ffmpeg_proxy                             *)
(* ------------------------------------------------------------------ *)

\* The first job id.
FirstJob == CHOOSE i \in JobIds : \A k \in JobIds : i <= k

\* create_job(job_type, ...) has returned FirstJob and the thread that is
\* to run the job's worker has been started.
Started(job_type, w) ==
    /\ jobs = create_job(NoFunc, FirstJob, job_type, "label", MaxClock, MaxClock)
    /\ lists = (FirstJob :> Empty)
    /\ issued = {FirstJob}
    /\ clock = MaxClock
    /\ lastCall = Call("init", 0, NoArgs)
    /\ ncalls = 0
    /\ snap = NoFunc
    /\ seen = NoFunc
    /\ thr = (FirstJob :> w)
    /\ files = {}
    /\ tmpdirs = {}
    /\ lock = FALSE
    /\ cs = [t \in Threads |-> Idle]
    /\ NoSandbox
    /\ NoWords
    /\ NoRequest

InitProxy == Started("proxy", Thread("proxy", 0, ""))

NextProxy ==
    \E j \in JobIds :
        \/ ProxyStart(j)
        \/ ProxySpawn(j)
        \/ ProxyRead(j)
        \/ ProxyWait(j)

SpecProxy == InitProxy /\ [][NextProxy]_vars

\* Proxy thread j is inside run_ffmpeg_proxy.
Proxying(j) == thr[j].kind = "proxy" /\ thr[j].pc \notin {"done", "crashed"}

\* The proxy worker has ended and its job is completed exactly when the
\* encoder was waited for, exited with zero and left the target file; a
\* completed proxy job shows progress 100 and the ready message.
ProxyCompletedIff ==
    \A j \in DOMAIN thr :
        (thr[j].kind = "proxy" /\ Ended(j)) =>
            /\ jobs[j].status = COMPLETED <=> (thr[j].rc = 0 /\ thr[j].made)
            /\ jobs[j].status = COMPLETED =>
                  (jobs[j].progress = 100 /\ jobs[j].message = "proxy ready")

\* The four failures: the worker's last step, taken before the encoder is
\* spawned (missing source), at the spawn (missing binary), or at the wait
\* with a non-zero exit or without the target file, leaves the job failed.
ProxyFailures ==
    \A j \in DOMAIN thr :
        (Proxying(j) /\ thr'[j].pc \in {"done", "crashed"}) =>
            /\ thr[j].pc \in {"start", "spawn"} =>
                  (thr'[j].pc = "done" => jobs'[j].status = FAILED)
            /\ (thr[j].pc = "wait" /\ (thr'[j].rc # 0 \/ ~thr'[j].made)) =>
                  jobs'[j].status = FAILED

\* C22: a proxy job ends completed, with progress 100 and the ready
\* message, if and only if the encoder exited with zero and the target file
\* exists afterwards; a missing source, a missing encoder, a non-zero exit
\* and a zero exit without the target each end the job failed.
C22_ProxyOutcome == []ProxyCompletedIff /\ [][ProxyFailures]_vars

\* The encoder ran, printed a line and exited with zero, but left no target
\* file: the job is failed.
C22_Witness ==
    \E j \in DOMAIN thr :
        /\ thr[j].kind = "proxy" /\ thr[j].pc = "done" /\ thr[j].line # ""
        /\ thr[j].rc = 0 /\ ~thr[j].made /\ jobs[j].status = FAILED

\* Proxy thread j reads a line of the encoder's output in this step; the
\* line is thr'[j].line.
ReadsLine(j) == Proxying(j) /\ thr[j].pc = "read" /\ thr'[j].pc = "read"

\* v microseconds of a source of D seconds, in whole percents, clamped.
ClampedPercent(v, D) == Min2(100, Max2(0, (v * 100) \div (1000000 * D)))

\* With a known duration, a marker with a numeric value sets the progress
\* to the clamped percentage; one with another value changes nothing.
MarkerSetsProgress ==
    \A j \in DOMAIN thr :
        (ReadsLine(j) /\ thr[j].dur > 0 /\ IsTimeMarker(thr'[j].line)) =>
            IF IsNumber(AfterEquals(thr'[j].line))
            THEN jobs'[j].progress = ClampedPercent(Float(AfterEquals(thr'[j].line)), thr[j].dur)
            ELSE jobs' = jobs /\ lists' = lists

\* The example of C23: out_time_ms=5000000 of a 10 second source is 50.
MarkerExample ==
    \A j \in DOMAIN thr :
        (ReadsLine(j) /\ thr[j].dur = 10 /\ thr'[j].line = "out_time_ms=5000000") =>
            jobs'[j].progress = 50

\* C23: for a proxy job with known source duration D > 0, an elapsed-time
\* marker with numeric value v sets the progress to (v / 1000000) / D * 100
\* clamped to [0, 100] (5000000 with D = 10 gives 50); a marker whose value
\* is not numeric changes nothing.
C23_MarkerProgress == [][MarkerSetsProgress /\ MarkerExample]_vars

\* The marker 5000000 of a 10 second source was read last; progress is 50.
C23_Witness ==
    \E j \in DOMAIN thr :
        /\ thr[j].kind = "proxy" /\ thr[j].pc = "read" /\ thr[j].dur = 10
        /\ thr[j].line = "out_time_ms=5000000" /\ jobs[j].progress = 50

\* A job record with its progress and its time of update left out.
SansProgress(job) == [job EXCEPT !.progress = 0, !.updated_at = 0]

\* A job record with its message and its time of update left out.
SansMessage(job) == [job EXCEPT !.message = "", !.updated_at = 0]

\* Each line read has the one effect of its class: a marker changes at most
\* the progress, and nothing when the duration is unknown; a status phrase
\* sets the message and nothing else; any other line is appended to the log
\* and changes nothing else.
OneEffectByClass ==
    \A j \in DOMAIN thr :
        ReadsLine(j) =>
            IF IsTimeMarker(thr'[j].line)
            THEN /\ SansProgress(jobs'[j]) = SansProgress(jobs[j])
                 /\ lists' = lists
                 /\ thr[j].dur = 0 => jobs'[j].progress = jobs[j].progress
            ELSE IF IsStatusPhrase(thr'[j].line)
            THEN /\ SansMessage(jobs'[j]) = SansMessage(jobs[j])
                 /\ jobs'[j].message = AfterEquals(thr'[j].line)
                 /\ lists' = lists
            ELSE /\ [jobs'[j] EXCEPT !.updated_at = 0] = [jobs[j] EXCEPT !.updated_at = 0]
                 /\ LogsOf(lists', jobs'[j]) = Append(LogsOf(lists, jobs[j]), thr'[j].line)

\* C24: each non-empty line of the proxy encoder's output has exactly one
\* effect according to its class: an elapsed-time marker only ever affects
\* progress, and has no effect when the source duration is unknown; a
\* status phrase only sets the message; only lines of neither kind are
\* appended to the job's log.
C24_OneEffectPerLine == [][OneEffectByClass]_vars

(* ------------------------------------------------------------------ *)
(* SpecScript: one call of run_script_job                              *)
(* ------------------------------------------------------------------ *)

InitScript == Started("script", Thread("script", 0, ""))

NextScript ==
    \E j \in JobIds :
        \/ ScriptStart(j)
        \/ ScriptRead(j)
        \/ ScriptWait(j)

SpecScript == InitScript /\ [][NextScript]_vars

\* Script thread j is inside run_script_job.
Scripting(j) == thr[j].kind = "script" /\ thr[j].pc \notin {"done", "crashed"}

\* The lines of a stream as the log holds them.
Logged(stream) == [k \in 1..Len(stream) |-> rstrip(stream[k])]

\* The first step of the worker: a spawned process makes the job running;
\* a missing script or interpreter makes the pending job failed and ends
\* the worker.
ScriptFirstStep ==
    \A j \in DOMAIN thr :
        (Scripting(j) /\ thr[j].pc = "start" /\ Steps(j)) =>
            /\ jobs[j].status = PENDING
            /\ IF thr'[j].runs > 0
               THEN jobs'[j].status = RUNNING /\ thr'[j].pc = "read"
               ELSE jobs'[j].status = FAILED /\ thr'[j].pc = "done"

\* A script job is running only when its process was spawned.
ScriptRunningNeedsProcess ==
    \A j \in DOMAIN thr :
        (thr[j].kind = "script" /\ jobs[j].status = RUNNING) => thr[j].runs > 0

\* While the process's output is read the log holds the lines read so far,
\* in the order printed.
ScriptLogFollows ==
    \A j \in DOMAIN thr :
        (thr[j].kind = "script" /\ thr[j].runs > 0) =>
            LogsOf(lists, jobs[j]) = Logged(SubSeq(thr[j].stream, 1, thr[j].pos))

\* An ended worker that had spawned the process: completed with progress
\* 100 exactly when the exit code is 0, failed with the exit code in the
\* message otherwise.
ScriptOutcome ==
    \A j \in DOMAIN thr :
        (thr[j].kind = "script" /\ Ended(j) /\ thr[j].runs > 0) =>
            /\ jobs[j].status = COMPLETED <=> thr[j].rc = 0
            /\ jobs[j].status = COMPLETED => jobs[j].progress = 100
            /\ jobs[j].status # COMPLETED =>
                  (jobs[j].status = FAILED /\ jobs[j].message = ExitedWith("exit code", thr[j].rc))

\* An ended worker has logged every line the process printed.
ScriptLogComplete ==
    \A j \in DOMAIN thr :
        (thr[j].kind = "script" /\ Ended(j) /\ thr[j].runs > 0) =>
            LogsOf(lists, jobs[j]) = Logged(thr[j].stream)

\* The same for a worker that returned, no error having been raised while
\* the output was read.
ScriptLogCompleteNoRaise ==
    \A j \in DOMAIN thr :
        (thr[j].kind = "script" /\ thr[j].pc = "done" /\ thr[j].runs > 0) =>
            LogsOf(lists, jobs[j]) = Logged(thr[j].stream)

Range(q) == {q[k] : k \in 1..Len(q)}

\* An export returns after its merge exited non-zero: the job is failed and
\* the merge's error output is its message or one of its log lines.
MergeErrorRecorded ==
    \A j \in DOMAIN thr :
        (Returns(j) /\ thr[j].merge # None /\ Val(thr[j].merge) # 0) =>
            /\ jobs'[j].status = FAILED
            /\ \/ jobs'[j].message = thr[j].stderr
               \/ thr[j].stderr \in Range(LogsOf(lists', jobs'[j]))

\* C26: whenever an export job ends failed because the merge step exited
\* non-zero, the captured error output of that process is recorded in the
\* job (its message or its logs).
C26_MergeErrorRecorded == [][MergeErrorRecorded]_vars

(* ------------------------------------------------------------------ *)
(* SpecRequest: POST /api/export-video and /api/export-audio, one      *)
(* request, statement by statement, while other requests set or clear  *)
(* the workspace                                                       *)
(* ------------------------------------------------------------------ *)

\* WORKSPACE_DIR = None. No path has an empty component, so the value is
\* none of the roots.
Unset == <<"">>

\* The videoFile / sourceFile values: none given, and those of SourceArgs.
FileArgs == {PathOf(FALSE, Empty)} \cup SourceArgs

\* The editedWords values: none, every word deleted, one word kept, a kept
\* word and a deleted one.
RequestWords ==
    LET kept == [start |-> 0, end |-> 1, deleted |-> FALSE]
        cut == [start |-> 1, end |-> 2, deleted |-> TRUE]
    IN  {Empty, <<cut>>, <<cut, cut>>, <<kept>>, <<kept, cut>>}

InitRequest ==
    /\ jobs = NoFunc
    /\ lists = NoFunc
    /\ issued = {}
    /\ clock = MaxClock
    /\ lastCall = Call("init", 0, NoArgs)
    /\ ncalls = 0
    /\ snap = NoFunc
    /\ seen = NoFunc
    /\ thr = NoFunc
    /\ files = {}
    /\ tmpdirs = {}
    /\ lock = FALSE
    /\ cs = [t \in Threads |-> Idle]
    /\ WORKSPACE_DIR \in Roots \cup {Unset}
    /\ links = NoFunc
    /\ asked = [fn |-> "none", path |-> PathOf(FALSE, Empty)]
    /\ answer = None
    /\ NoWords
    /\ NoRequest

RequestFrame == UNCHANGED <<apivars, lckvars, segvars, files, tmpdirs, links, asked, answer, auto>>

\* self._send_json(..., status=code); return
Reply(code) == req' = [req EXCEPT !.pc = "done", !.reply = code]

\* POST /api/workspace: WORKSPACE_DIR = candidate
SetWorkspace ==
    /\ \E candidate \in Roots : WORKSPACE_DIR' = candidate
    /\ UNCHANGED <<regvars, thr, req>>
    /\ RequestFrame

\* POST /api/projects/delete of the current project: WORKSPACE_DIR = None
ClearWorkspace ==
    /\ WORKSPACE_DIR # Unset
    /\ WORKSPACE_DIR' = Unset
    /\ UNCHANGED <<regvars, thr, req>>
    /\ RequestFrame

\* if WORKSPACE_DIR is None: ...; the body is read; if not video_file: ...;
\* if not edited_words: ...
RequestArrives ==
    /\ req.pc = "idle"
    /\ \E kind \in ExportKinds, video_file \in FileArgs, edited_words \in RequestWords :
          req' = [req EXCEPT !.kind = kind, !.video_file = video_file,
                             !.edited_words = edited_words,
                             !.pc = IF \/ WORKSPACE_DIR = Unset
                                       \/ video_file.parts = Empty
                                       \/ edited_words = Empty
                                    THEN "done" ELSE "from_name",
                             !.reply = IF \/ WORKSPACE_DIR = Unset
                                          \/ video_file.parts = Empty
                                          \/ edited_words = Empty
                                       THEN 400 ELSE 0]
    /\ UNCHANGED <<regvars, thr, WORKSPACE_DIR>>
    /\ RequestFrame

\* workspace_path_from_name: if WORKSPACE_DIR is None: raise ValueError
RequestFromName ==
    /\ req.pc = "from_name"
    /\ IF WORKSPACE_DIR = Unset THEN Reply(400)
       ELSE req' = [req EXCEPT !.pc = "join"]
    /\ UNCHANGED <<regvars, thr, WORKSPACE_DIR>>
    /\ RequestFrame

\* candidate = (WORKSPACE_DIR / rel).resolve(), or rel.resolve(); None / rel
\* raises TypeError, which the handler's except Exception turns into 400
RequestJoin ==
    /\ req.pc = "join"
    /\ IF WORKSPACE_DIR = Unset /\ ~req.video_file.abs THEN Reply(400)
       ELSE req' = [req EXCEPT !.pc = "relative_to",
                               !.candidate = Some(resolve(links, JoinPath(WORKSPACE_DIR, req.video_file)))]
    /\ UNCHANGED <<regvars, thr, WORKSPACE_DIR>>
    /\ RequestFrame

\* candidate.relative_to(WORKSPACE_DIR); return candidate
RequestRelativeTo ==
    /\ req.pc = "relative_to"
    /\ IF WORKSPACE_DIR = Unset \/ ~relative_to(Val(req.candidate), WORKSPACE_DIR)
       THEN Reply(400)
       ELSE req' = [req EXCEPT !.pc = "exists", !.source = req.candidate,
                               !.root = Some(WORKSPACE_DIR)]
    /\ UNCHANGED <<regvars, thr, WORKSPACE_DIR>>
    /\ RequestFrame

\* if not video_path.exists(): 404
RequestExists ==
    /\ req.pc = "exists"
    /\ \/ Reply(404)
       \/ req' = [req EXCEPT !.pc = "segments", !.found = TRUE]
    /\ UNCHANGED <<regvars, thr, WORKSPACE_DIR>>
    /\ RequestFrame

\* Mutant: an empty segment list is not rejected.
NoSegmentsBuilt_accepted(segs) == FALSE

\* if not segments:
NoSegmentsBuilt(segs) == segs = Empty

\* segments = build_segments(edited_words); if not segments: 400
RequestSegments ==
    /\ req.pc = "segments"
    /\ LET segs == build_segments(req.edited_words)
       IN  req' = [req EXCEPT !.segs = Some(segs),
                              !.pc = IF NoSegmentsBuilt(segs) THEN "done" ELSE "output",
                              !.reply = IF NoSegmentsBuilt(segs) THEN 400 ELSE 0]
    /\ UNCHANGED <<regvars, thr, WORKSPACE_DIR>>
    /\ RequestFrame

\* output_path = WORKSPACE_DIR / output_filename; None / str raises
\* TypeError, which nothing catches: the request ends without a reply (500
\* stands for it)
RequestOutput ==
    /\ req.pc = "output"
    /\ IF WORKSPACE_DIR = Unset THEN Reply(500)
       ELSE req' = [req EXCEPT !.pc = "create",
                               !.output = Some(OutputFile(WORKSPACE_DIR, OutputPath(req.kind)))]
    /\ UNCHANGED <<regvars, thr, WORKSPACE_DIR>>
    /\ RequestFrame

\* job_id = job_manager.create_job("export", ...); thread.start(); 200
RequestCreate ==
    /\ req.pc = "create"
    /\ \E job_id \in uuid4(issued) :
          /\ jobs' = create_job(jobs, job_id, "export", "label", clock, clock)
          /\ lists' = (job_id :> Empty) @@ lists
          /\ issued' = issued \cup {job_id}
          /\ thr' = (job_id :> [Thread(req.kind, Len(Val(req.segs)), OutputPath(req.kind))
                                   EXCEPT !.src = Val(req.source)]) @@ thr
          /\ req' = [req EXCEPT !.pc = "done", !.reply = 200, !.job = job_id]
    /\ UNCHANGED <<clock, WORKSPACE_DIR>>
    /\ RequestFrame

NextRequest ==
    \/ SetWorkspace
    \/ ClearWorkspace
    \/ RequestArrives
    \/ RequestFromName
    \/ RequestJoin
    \/ RequestRelativeTo
    \/ RequestExists
    \/ RequestSegments
    \/ RequestOutput
    \/ RequestCreate

SpecRequest == InitRequest /\ [][NextRequest]_vars

\* The request has been answered.
Answered == req.pc = "done"

\* The step that adds a job is the handler's create_job, taken after the
\* workspace was set, the source path resolved inside it, the source file
\* existed and build_segments gave a segment; it starts the job's worker.
CreatesOnlyValidated ==
    jobs' # jobs =>
        /\ req.pc = "create"
        /\ req.root # None /\ Val(req.root) # Unset
        /\ req.source # None /\ relative_to(Val(req.source), Val(req.root))
        /\ req.found
        /\ req.segs # None /\ Len(Val(req.segs)) >= 1
        /\ DOMAIN thr' = DOMAIN jobs'

\* A request answered with an error has left no job and started no worker.
RejectedLeavesRegistry ==
    (Answered /\ req.reply # 200) =>
        (jobs = NoFunc /\ lists = NoFunc /\ thr = NoFunc)

\* A worker runs only for a job the registry holds.
WorkersHaveJobs == DOMAIN thr = DOMAIN jobs

\* An edit list with every word deleted never produces a job.
AllDeleted(ws) == ws # Empty /\ \A k \in 1..Len(ws) : ws[k].deleted

AllDeletedNoJob == AllDeleted(req.edited_words) => (jobs = NoFunc /\ thr = NoFunc)

\* C27: an export request creates a job record only after the up-front
\* validations passed (workspace set, source path inside the workspace,
\* source file exists, at least one segment built); a rejected request
\* leaves the job registry unchanged and starts no worker; an edit list
\* with every word deleted never produces a job.
C27_JobAfterValidation ==
    /\ [](RejectedLeavesRegistry /\ WorkersHaveJobs /\ AllDeletedNoJob)
    /\ [][CreatesOnlyValidated]_vars

\* A request whose words are all deleted got as far as build_segments and
\* was answered 400; there is no job.
C27_Witness ==
    /\ Answered /\ req.reply = 400 /\ req.segs = Some(Empty)
    /\ AllDeleted(req.edited_words) /\ jobs = NoFunc /\ thr = NoFunc

\* C29: for every export request, under any interleaving with requests
\* that set or clear the workspace, the output path handed to the export
\* worker lies inside the workspace root against which the request's
\* source path was validated.
C29_OutputInValidatedRoot ==
    req.job # 0 => relative_to(Val(req.output), Val(req.root))

\* The worker of job j calls update_job with a status in this step: the
\* step is one of the worker's statements that pass one, and the job's
\* record shows the call.
WritesStatus(j) ==
    /\ jobs'[j] # jobs[j]
    /\ \/ ProxyStart(j) \/ ProxySpawn(j) \/ ProxyWait(j)
       \/ ScriptStart(j) \/ ScriptWait(j)
       \/ ExportStart(j) \/ ExportConcat(j) \/ ExportVerify(j)
       \/ ExportComplete(j) \/ ExportExcept(j)

\* Once a worker's job is completed or failed the worker passes no status
\* to update_job again.
NoWriteAfterTerminal ==
    \A j \in DOMAIN thr : jobs[j].status \in Terminal => ~WritesStatus(j)

\* C28: each worker (proxy, script, audio export, video export) writes a
\* terminal status to its job at most once and performs no status write
\* afterwards, on every execution path, including the one where an error
\* is raised while the export's temporary directory is cleaned up after
\* the job was set to completed.
C28_TerminalWrittenOnce == [][NoWriteAfterTerminal]_vars

(* ------------------------------------------------------------------ *)
(* SpecAuto: auto_process_video for one upload, and the                *)
(* delayed_transcription thread it starts, up to its call of           *)
(* run_script_job; the audio extraction job's worker runs beside them  *)
(* ------------------------------------------------------------------ *)

ProxyLabel == "Auto-create proxy"
ExtractLabel == "Auto-extract audio"
TranscribeLabel == "Auto-transcribe with Deepgram"

InitAuto ==
    /\ jobs = NoFunc
    /\ lists = NoFunc
    /\ issued = {}
    /\ clock = MaxClock
    /\ lastCall = Call("init", 0, NoArgs)
    /\ ncalls = 0
    /\ snap = NoFunc
    /\ seen = NoFunc
    /\ thr = NoFunc
    /\ files = {}
    /\ tmpdirs = {}
    /\ lock = FALSE
    /\ cs = [t \in Threads |-> Idle]
    /\ NoSandbox
    /\ NoWords
    /\ NoRequest

AutoFrame == UNCHANGED <<apivars, lckvars, sbxvars, segvars, files, tmpdirs, req>>

\* create_job(job_type, label) and, for a worker w, thread.start()
AutoCreate(job_id, job_type, label, w) ==
    /\ jobs' = create_job(jobs, job_id, job_type, label, clock, clock)
    /\ lists' = (job_id :> Empty) @@ lists
    /\ issued' = issued \cup {job_id}
    /\ thr' = (job_id :> w) @@ thr
    /\ UNCHANGED clock

\* The suffix check and summary = summarize_directory(project_dir)
AutoBegin ==
    /\ auto.pc = "idle"
    /\ \E is_video, proxy, audio, transcript_json \in BOOLEAN :
          auto' = IF ~is_video THEN [auto EXCEPT !.pc = "done"]
                  ELSE [auto EXCEPT !.pc = "proxy", !.audio_file = audio,
                                    !.summary = [proxy |-> proxy, audio |-> audio,
                                                 transcript_json |-> transcript_json]]
    /\ UNCHANGED <<regvars, thr>>
    /\ AutoFrame

\* 1. if not summary['files'].get('proxy'): create_job("proxy", ...), thread
AutoProxy ==
    /\ auto.pc = "proxy"
    /\ IF ~auto.summary.proxy
       THEN \E job_id \in uuid4(issued) :
               AutoCreate(job_id, "proxy", ProxyLabel, Thread("proxy", 0, ""))
       ELSE UNCHANGED <<regvars, thr>>
    /\ auto' = [auto EXCEPT !.pc = "audio"]
    /\ AutoFrame

\* 2. if not summary['files'].get('audio'): if script_path.is_file():
\* create_job("script", "Auto-extract audio"), thread
AutoAudio ==
    /\ auto.pc = "audio"
    /\ \E is_file \in BOOLEAN :
          IF ~auto.summary.audio /\ is_file
          THEN \E job_id \in uuid4(issued) :
                  /\ AutoCreate(job_id, "script", ExtractLabel, Thread("script", 0, ""))
                  /\ auto' = [auto EXCEPT !.pc = "transcript", !.extract = job_id]
          ELSE /\ UNCHANGED <<regvars, thr>>
               /\ auto' = [auto EXCEPT !.pc = "transcript"]
    /\ AutoFrame

\* 3. if not summary['files'].get('transcript_json'): if script_path.is_file():
\* threading.Thread(target=delayed_transcription).start()
AutoTranscript ==
    /\ auto.pc = "transcript"
    /\ \E is_file \in BOOLEAN :
          auto' = [auto EXCEPT !.pc = "done",
                               !.delayed = IF ~auto.summary.transcript_json /\ is_file
                                           THEN "sleep" ELSE "none"]
    /\ UNCHANGED <<regvars, thr>>
    /\ AutoFrame

\* Mutant: the re-check finds an audio file whatever the directory holds.
AudioPresent_always(audio_file) == TRUE

\* updated_summary['files'].get('audio')
AudioPresent(audio_file) == audio_file

\* delayed_transcription: time.sleep(10); the re-check; create_job and the
\* call of run_script_job in this thread, or the warning
DelayedTranscription ==
    /\ auto.delayed = "sleep"
    /\ IF AudioPresent(auto.audio_file)
       THEN \E job_id \in uuid4(issued) :
               /\ AutoCreate(job_id, "script", TranscribeLabel, Thread("script", 0, ""))
               /\ auto' = [auto EXCEPT !.delayed = "done", !.transcribe = job_id,
                                       !.rechecked = Some(auto.audio_file)]
       ELSE /\ UNCHANGED <<regvars, thr>>
            /\ auto' = [auto EXCEPT !.delayed = "done", !.rechecked = Some(auto.audio_file)]
    /\ AutoFrame

\* The project directory gains or loses its audio file: the extraction
\* script writes it, or someone removes it.
AudioFileChanges ==
    /\ auto.pc # "idle"
    /\ auto' = [auto EXCEPT !.audio_file = ~@]
    /\ UNCHANGED <<regvars, thr>>
    /\ AutoFrame

\* The worker of the audio extraction job.
ExtractionWorker ==
    /\ auto.extract # 0
    /\ \/ ScriptStart(auto.extract)
       \/ ScriptRead(auto.extract)
       \/ ScriptWait(auto.extract)

NextAuto ==
    \/ AutoBegin
    \/ AutoProxy
    \/ AutoAudio
    \/ AutoTranscript
    \/ DelayedTranscription
    \/ AudioFileChanges
    \/ ExtractionWorker

SpecAuto == InitAuto /\ [][NextAuto]_vars

\* The transcription jobs in the registry.
TranscribeJobs == {k \in DOMAIN jobs : jobs[k].label = TranscribeLabel}

\* The re-check of delayed_transcription happens in this step.
Rechecks == auto.delayed = "sleep" /\ auto'.delayed = "done"

\* A transcription job is created only by the re-check, made for an upload
\* without a transcript, and only when the audio file is there at that
\* moment; the re-check creates one exactly when the file is there,
\* whatever the status of the extraction job.
TranscribeOnlyAtRecheck ==
    /\ TranscribeJobs' # TranscribeJobs =>
          (Rechecks /\ auto.audio_file /\ ~auto.summary.transcript_json)
    /\ Rechecks => (TranscribeJobs' # {} <=> auto.audio_file)

\* There is one re-check: once made, none follows.
RecheckOnce == auto.delayed = "done" => auto'.delayed = "done"

\* After a re-check that found no audio file there is never a
\* transcription job; there is never more than one.
NoRetry ==
    /\ auto.rechecked = Some(FALSE) => TranscribeJobs = {}
    /\ Cardinality(TranscribeJobs) <= 1
    /\ TranscribeJobs # {} => auto.rechecked = Some(TRUE)

\* C30: when an uploaded video is auto-processed and no transcript exists,
\* a transcription job is created only if an audio file is present in the
\* project directory at the single re-check made after the fixed delay; if
\* none is present then, no transcription job is ever created for that
\* upload; the re-check does not consult the audio extraction job's status.
C30_TranscribeAtRecheck == []NoRetry /\ [][TranscribeOnlyAtRecheck /\ RecheckOnce]_vars

\* A transcription job exists although the audio extraction job is failed.
C30_Witness ==
    /\ TranscribeJobs # {}
    /\ auto.extract # 0 /\ jobs[auto.extract].status = FAILED

====
